---- MODULE Spec2Model ----
(***************************************************************************)
(* Model of the Picard plugins of this repository.                         *)
(*                                                                         *)
(* Strings are sequences of one-character strings, so that the regular     *)
(* expressions of the plugins are modelled character by character.         *)
(***************************************************************************)
EXTENDS Naturals, Integers, Sequences, FiniteSets, TLC

VARIABLES
    arg,      \* the argument handed to a helper function (a string, or a record)
    fn,       \* the helper last applied to arg ("none" before the call)
    out,      \* what that helper returned
    md,       \* the metadata record the host hands to the processors
    pre,      \* the metadata record as it was before the last processor call
    setting,  \* config.setting: the persisted configuration store
    last      \* the last operation on the record or the store

vars == <<arg, fn, out, md, pre, setting, last>>

-----------------------------------------------------------------------------
(* Characters *)

NL == "\n"
SP == " "

\* str.strip() and the regex class \s
IsSpace(c) == c \in {SP, NL}

LowerLetters ==
    {"a","b","c","d","e","f","g","h","i","j","k","l","m",
     "n","o","p","q","r","s","t","u","v","w","x","y","z"}

UpperLetters ==
    {"A","B","C","D","E","F","G","H","I","J","K","L","M",
     "N","O","P","Q","R","S","T","U","V","W","X","Y","Z"}

UpperToLower ==
    [c \in UpperLetters |->
        CASE c = "A" -> "a" [] c = "B" -> "b" [] c = "C" -> "c" [] c = "D" -> "d"
          [] c = "E" -> "e" [] c = "F" -> "f" [] c = "G" -> "g" [] c = "H" -> "h"
          [] c = "I" -> "i" [] c = "J" -> "j" [] c = "K" -> "k" [] c = "L" -> "l"
          [] c = "M" -> "m" [] c = "N" -> "n" [] c = "O" -> "o" [] c = "P" -> "p"
          [] c = "Q" -> "q" [] c = "R" -> "r" [] c = "S" -> "s" [] c = "T" -> "t"
          [] c = "U" -> "u" [] c = "V" -> "v" [] c = "W" -> "w" [] c = "X" -> "x"
          [] c = "Y" -> "y" [] c = "Z" -> "z"]

\* the regex class \w, on which \b rests
IsWord(c) == c \in LowerLetters \/ c \in UpperLetters \/ c = "_"

\* one character of str.casefold() / str.lower() / re.IGNORECASE
FoldChar(c) == IF c \in UpperLetters THEN UpperToLower[c] ELSE c

casefold(s) == [i \in 1..Len(s) |-> FoldChar(s[i])]

\* str.strip()
strip(s) ==
    LET keep == {i \in 1..Len(s) : ~IsSpace(s[i])}
    IN  IF keep = {} THEN <<>>
        ELSE SubSeq(s, CHOOSE i \in keep : \A j \in keep : i <= j,
                       CHOOSE i \in keep : \A j \in keep : j <= i)

\* the literal lit (lower case) read at position i of s under re.IGNORECASE
MatchLit(s, i, lit) ==
    /\ i >= 1
    /\ i + Len(lit) - 1 <= Len(s)
    /\ \A k \in 1..Len(lit) : FoldChar(s[i + k - 1]) = lit[k]

\* \b between s[i-1] and s[i]
WordBoundary(s, i) ==
    LET before == i > 1 /\ i - 1 <= Len(s) /\ IsWord(s[i - 1])
        after  == i >= 1 /\ i <= Len(s) /\ IsWord(s[i])
    IN  before # after

\* length of the run of \s characters of s that starts at position i
SpaceRun(s, i) ==
    LET stops == {j \in i..Len(s) : ~IsSpace(s[j])}
    IN  IF i > Len(s) THEN 0
        ELSE IF stops = {} THEN Len(s) - i + 1
        ELSE (CHOOSE j \in stops : \A k \in stops : j <= k) - i

\* length of the run of characters "." matches (no line break) from position i
DotRun(s, i) ==
    LET stops == {j \in i..Len(s) : s[j] = NL}
    IN  IF i > Len(s) THEN 0
        ELSE IF stops = {} THEN Len(s) - i + 1
        ELSE (CHOOSE j \in stops : \A k \in stops : j <= k) - i

\* the largest number of a non-empty set of numbers
Max(S) == CHOOSE x \in S : \A y \in S : x >= y

\* a or b of Python: a unless it is empty
OrElse(a, b) == IF a # <<>> THEN a ELSE b

-----------------------------------------------------------------------------
(* Featured Artists - Standardizer: patterns *)

LitFeat      == <<"f","e","a","t",".">>
LitFeaturing == <<"f","e","a","t","u","r","i","n","g">>
LitWith      == <<"w","i","t","h">>
LitAnd       == <<"a","n","d">>

\* (?:\bfeat\.|\bfeaturing\b|\bwith\b) read at position i: the length of the
\* token matched there, 0 when none is
FeatTokenLen(s, i) ==
    IF ~WordBoundary(s, i) THEN 0
    ELSE IF MatchLit(s, i, LitFeat) THEN Len(LitFeat)
    ELSE IF /\ MatchLit(s, i, LitFeaturing)
            /\ WordBoundary(s, i + Len(LitFeaturing)) THEN Len(LitFeaturing)
    ELSE IF /\ MatchLit(s, i, LitWith)
            /\ WordBoundary(s, i + Len(LitWith)) THEN Len(LitWith)
    ELSE 0

\* the groups of a match whose token stands at i, with (.*) starting at from
SplitFrom(s, i, from) ==
    [at |-> i,
     g1 |-> SubSeq(s, 1, i - 1),
     g2 |-> SubSeq(s, from, from + DotRun(s, from) - 1)]

\* \s* after the token that ends before position after
SplitAfter(s, i, after) == SplitFrom(s, i, after + SpaceRun(s, after))

\* the match with the token at i
SplitAt(s, i) == SplitAfter(s, i, i + FeatTokenLen(s, i))

\* a match on the last of the places where a token stands
SplitOnLast(s, cands) ==
    IF cands = {} THEN [at |-> 0, g1 |-> <<>>, g2 |-> <<>>]
    ELSE SplitAt(s, CHOOSE c \in cands : \A d \in cands : c >= d)

\* the match on the first of the places cands where a token stands
SplitOn(s, cands) ==
    IF cands = {} THEN [at |-> 0, g1 |-> <<>>, g2 |-> <<>>]
    ELSE SplitAt(s, CHOOSE c \in cands : \A d \in cands : c <= d)

\* _FEAT_SPLIT_RE.match(s): (.*?) grows one character at a time, never over a
\* line break, up to the first token; \s* and (.*) then take what follows.
\* The result is the position of the token (0: no match) and the two groups.
_FEAT_SPLIT_RE(s) ==
    SplitOn(s, {i \in 1..DotRun(s, 1) : FeatTokenLen(s, i) > 0})

\* _FEAT_SEP_RE read at position i: the length of the separator matched
\* there, 0 when none is
_FEAT_SEP_RE(s, i) ==
    LET a == SpaceRun(s, i)
        p == i + a
    IN  IF p > Len(s) THEN 0
        ELSE IF s[p] \in {",", "&", ";", "+"}
             THEN a + 1 + SpaceRun(s, p + 1)
        ELSE IF a >= 1 /\ MatchLit(s, p, LitAnd) /\ SpaceRun(s, p + 3) >= 1
             THEN a + 3 + SpaceRun(s, p + 3)
        ELSE IF a >= 1 /\ s[p] = "/" /\ SpaceRun(s, p + 1) >= 1
             THEN a + 1 + SpaceRun(s, p + 1)
        ELSE 0

\* _FEAT_SEP_RE.split(s): the pieces between the separators found from left
\* to right, the empty ones included
RECURSIVE SepSplit(_, _, _)
SepSplit(s, start, i) ==
    IF i > Len(s) THEN <<SubSeq(s, start, Len(s))>>
    ELSE LET n == _FEAT_SEP_RE(s, i)
         IN  IF n > 0
             THEN <<SubSeq(s, start, i - 1)>> \o SepSplit(s, i + n, i + n)
             ELSE SepSplit(s, start, i + 1)

-----------------------------------------------------------------------------
(* Featured Artists - Standardizer: utility functions *)

Wrappers == {<<"(", ")">>, <<"[", "]">>, <<"{", "}">>}

RECURSIVE StripLoop(_)
StripLoop(t) ==
    IF t # <<>> /\ \E w \in Wrappers : t[1] = w[1] /\ t[Len(t)] = w[2]
    THEN StripLoop(strip(SubSeq(t, 2, Len(t) - 1)))
    ELSE t

_strip_wrappers(s) == IF s = <<>> THEN <<>> ELSE StripLoop(strip(s))

\* a loop that tells duplicates apart by their spelling, not case-folded
RECURSIVE NormalizeLoopCaseSensitive(_, _, _, _)
NormalizeLoopCaseSensitive(parts, k, seen, ordered) ==
    IF k > Len(parts) THEN ordered
    ELSE LET t == _strip_wrappers(parts[k])
         IN  IF t = <<>> \/ t \in seen
             THEN NormalizeLoopCaseSensitive(parts, k + 1, seen, ordered)
             ELSE NormalizeLoopCaseSensitive(parts, k + 1, seen \cup {t},
                                             Append(ordered, t))

\* the loop of _normalize_feat_list over parts[k..]
RECURSIVE NormalizeLoop(_, _, _, _)
NormalizeLoop(parts, k, seen, ordered) ==
    IF k > Len(parts) THEN ordered
    ELSE LET t == _strip_wrappers(parts[k])
         IN  IF t = <<>> \/ casefold(t) \in seen
             THEN NormalizeLoop(parts, k + 1, seen, ordered)
             ELSE NormalizeLoop(parts, k + 1, seen \cup {casefold(t)},
                                Append(ordered, t))

_normalize_feat_list(feat_tail) ==
    IF feat_tail = <<>> THEN <<>>
    ELSE NormalizeLoop(SelectSeq(SepSplit(feat_tail, 1, 1), LAMBDA p : p # <<>>),
                       1, {}, <<>>)

\* the result of _split_artist_feat on a match m: the stripped groups, the
\* lead replaced by the whole credit when it strips to nothing
SplitMatched(artist, m) ==
    [lead   |-> OrElse(_strip_wrappers(m.g1), artist),
     guests |-> _normalize_feat_list(_strip_wrappers(m.g2))]

\* a split that strips wrappers and blanks also when no token is found
SplitArtistFeatStripped(artist, m) ==
    IF artist = <<>> THEN [lead |-> <<>>, guests |-> <<>>]
    ELSE IF m.at = 0 THEN [lead |-> _strip_wrappers(artist), guests |-> <<>>]
    ELSE SplitMatched(artist, m)

\* the result of _split_artist_feat for the outcome m of the match
SplitResult(artist, m) ==
    IF artist = <<>> THEN [lead |-> <<>>, guests |-> <<>>]
    ELSE IF m.at = 0 THEN [lead |-> artist, guests |-> <<>>]
    ELSE SplitMatched(artist, m)

_split_artist_feat(artist) == SplitResult(artist, _FEAT_SPLIT_RE(artist))


LitFeatSp == <<" ","f","e","a","t","."," ">>

\* the suffix pattern of _already_has_feat_suffix read at the "(" of position
\* p: \(\s*(?:feat\.|featuring|with)\s+.+\)\s*$
SuffixTokenLen(title, t) ==
    IF MatchLit(title, t, LitFeat) THEN Len(LitFeat)
    ELSE IF MatchLit(title, t, LitFeaturing) THEN Len(LitFeaturing)
    ELSE IF MatchLit(title, t, LitWith) THEN Len(LitWith)
    ELSE 0

\* \s+.+\)\s*$ read at position u: k blanks, then at least one character up
\* to a closing parenthesis at q, then blanks to the end
SuffixTail(title, u, w) ==
    \E k \in 1..w : \E q \in (u + k + 1)..Len(title) :
        /\ title[q] = ")"
        /\ \A j \in (u + k)..(q - 1) : title[j] # NL
        /\ \A j \in (q + 1)..Len(title) : IsSpace(title[j])

\* the token of n characters at t, and what follows it
SuffixToken(title, t, n) ==
    n > 0 /\ SuffixTail(title, t + n, SpaceRun(title, t + n))

\* \(\s* has been read up to position t
SuffixFrom(title, t) == SuffixToken(title, t, SuffixTokenLen(title, t))

SuffixAt(title, p) ==
    /\ title[p] = "("
    /\ SuffixFrom(title, p + 1 + SpaceRun(title, p + 1))

_already_has_feat_suffix(title) == \E p \in 1..Len(title) : SuffixAt(title, p)

-----------------------------------------------------------------------------
(* Featured Artists - Standardizer: configuration and whitelist *)

\* config.setting.get(key, default)
\* a read that never looks at the store
SettingGetDefault(key, default) == default

SettingGet(key, default) ==
    IF key \in DOMAIN setting THEN setting[key] ELSE default

\* config.setting[key] raises KeyError: the store has no entry for key
KeyMissing(key) == key \notin DOMAIN setting

\* re.split(r"[\n,;]", raw): the pieces between the delimiters
RECURSIVE DelimSplit(_, _, _)
DelimSplit(raw, start, i) ==
    IF i > Len(raw) THEN <<SubSeq(raw, start, Len(raw))>>
    ELSE IF raw[i] \in {NL, ",", ";"}
         THEN <<SubSeq(raw, start, i - 1)>> \o DelimSplit(raw, i + 1, i + 1)
         ELSE DelimSplit(raw, start, i + 1)

_parse_whitelist ==
    LET raw == SettingGet("featured_artists_whitelist", <<>>)
    IN  IF raw = <<>> THEN {}
        ELSE LET items == DelimSplit(raw, 1, 1)
             IN  {casefold(strip(items[i])) :
                     i \in {j \in 1..Len(items) : strip(items[j]) # <<>>}}

\* a check that does not fold the case of the credit
WhitelistHasCaseSensitive(wl, full_artist_credit) ==
    /\ full_artist_credit # <<>>
    /\ wl # {}
    /\ strip(full_artist_credit) \in wl

\* the checks of _is_whitelisted against the parsed whitelist wl
WhitelistHas(wl, full_artist_credit) ==
    /\ full_artist_credit # <<>>
    /\ wl # {}
    /\ casefold(strip(full_artist_credit)) \in wl

_is_whitelisted(full_artist_credit) ==
    WhitelistHas(_parse_whitelist, full_artist_credit)

\* a check of the full credit alone
IsWhitelistedExactOnly(full_artist_credit) ==
    _is_whitelisted(full_artist_credit)

\* the second check of _is_whitelisted_credit_or_lead, on the lead
LeadWhitelisted(lead) == lead # <<>> /\ _is_whitelisted(lead)

_is_whitelisted_credit_or_lead(full_artist_credit) ==
    \/ _is_whitelisted(full_artist_credit)
    \/ LeadWhitelisted(_split_artist_feat(full_artist_credit).lead)

-----------------------------------------------------------------------------
(* Featured Artists - Standardizer: join phrases *)

\* _FT_NORMALIZE_RE read at position i: " f(ea)?t(\.|uring)? " with literal
\* blanks, case-insensitive; the length matched there, 0 when none is
_FT_NORMALIZE_RE(s, i) ==
    LET t == IF MatchLit(s, i, <<" ","f","e","a","t">>) THEN i + 5
             ELSE IF MatchLit(s, i, <<" ","f","t">>) THEN i + 3
             ELSE 0
        u == IF t = 0 THEN 0
             ELSE IF MatchLit(s, t, <<".", " ">>) THEN t + 2
             ELSE IF MatchLit(s, t, <<"u","r","i","n","g"," ">>) THEN t + 6
             ELSE IF MatchLit(s, t, <<" ">>) THEN t + 1
             ELSE 0
    IN  IF u = 0 THEN 0 ELSE u - i

\* _FT_NORMALIZE_RE.sub(" feat. ", s) from position i on
RECURSIVE FtSub(_, _)
FtSub(s, i) ==
    IF i > Len(s) THEN <<>>
    ELSE LET n == _FT_NORMALIZE_RE(s, i)
         IN  IF n > 0 THEN LitFeatSp \o FtSub(s, i + n)
             ELSE <<s[i]>> \o FtSub(s, i + 1)

\* the name read at position i, case-sensitively (re.escape makes it literal)
NameAt(s, i, name) ==
    /\ i + Len(name) - 1 <= Len(s)
    /\ \A k \in 1..Len(name) : s[i + k - 1] = name[k]

\* "$" without re.MULTILINE: the end, or just before a final line break
AtDollar(s, x) == x = Len(s) + 1 \/ (x = Len(s) /\ s[x] = NL)

\* re.match of the names k.. of artists_list at position pos of s, with the
\* groups between and after them: [ok, joins]. A group (\s*.*\s*) is tried
\* greedily: the longest first \s*, then the longest .*, then the longest
\* second \s*, each given back one character at a time, so that the ends it
\* reaches are tried from the farthest to the nearest.
RECURSIVE JoinMatch(_, _, _, _)
RECURSIVE JoinBacktrack(_, _, _, _, _)
RECURSIVE JoinTried(_, _, _, _, _, _)
JoinBacktrack(s, names, k, e, x) ==
    IF x < e THEN [ok |-> FALSE, joins |-> <<>>]
    ELSE JoinTried(s, names, k, e, x, JoinMatch(s, names, k, x))

\* the outcome m of the match of the names k.. at x decides: the group is
\* s[e..x-1], or a nearer end is tried
JoinTried(s, names, k, e, x, m) ==
    IF m.ok THEN [ok |-> TRUE, joins |-> <<SubSeq(s, e, x - 1)>> \o m.joins]
    ELSE JoinBacktrack(s, names, k, e, x - 1)

\* the position after .* read from afterSpace
DotsEnd(s, afterSpace) == afterSpace + DotRun(s, afterSpace)

\* the position after \s* read from p
SpacesEnd(s, p) == p + SpaceRun(s, p)

\* the group after the last name, from e: the first \s* takes a blanks, the
\* most for which .* then ends at "$"
TailGroup(s, e, as) ==
    IF as = {} THEN [ok |-> FALSE, joins |-> <<>>]
    ELSE [ok |-> TRUE,
          joins |-> <<SubSeq(s, e, DotsEnd(s, e + Max(as)) - 1)>>]

JoinMatch(s, names, k, pos) ==
    IF ~NameAt(s, pos, names[k]) THEN [ok |-> FALSE, joins |-> <<>>]
    ELSE IF k = Len(names)
    THEN TailGroup(s, pos + Len(names[k]),
                   {a \in 0..SpaceRun(s, pos + Len(names[k])) :
                       AtDollar(s, DotsEnd(s, pos + Len(names[k]) + a))})
    ELSE JoinBacktrack(s, names, k + 1, pos + Len(names[k]),
                       SpacesEnd(s, DotsEnd(s, SpacesEnd(s, pos + Len(names[k])))))

\* "".join(artist + join for artist, join in zip(artists_list, joins))
RECURSIVE Reassemble(_, _, _)
Reassemble(names, joins, k) ==
    IF k > Len(names) THEN <<>>
    ELSE names[k] \o FtSub(joins[k], 1) \o Reassemble(names, joins, k + 1)

\* a rebuild that gives the empty string when there is no match
StandardizedOrEmpty(artists_str, artists_list, m) ==
    IF ~m.ok THEN <<>> ELSE Reassemble(artists_list, m.joins, 1)

\* the string rebuilt from a match m, the string itself when there is none
Standardized(artists_str, artists_list, m) ==
    IF ~m.ok THEN artists_str ELSE Reassemble(artists_list, m.joins, 1)

_standardize_join_phrases(artists_str, artists_list) ==
    IF artists_str = <<>> \/ artists_list = <<>> THEN artists_str
    ELSE Standardized(artists_str, artists_list,
                      JoinMatch(artists_str, artists_list, 1, 1))

\* the call with its try / except: when the body raises (an entry of the
\* list that is not a string makes re.escape raise) the string is returned
TryStandardize(artists_str, artists_list, raises) ==
    IF raises THEN artists_str
    ELSE _standardize_join_phrases(artists_str, artists_list)

-----------------------------------------------------------------------------
(* Featured Artists - Standardizer: the metadata record and the processors *)

\* metadata.get(key, ""): a missing tag reads as the empty string
Get(m, key) == IF key \in DOMAIN m THEN m[key] ELSE <<>>

\* metadata.getall(key): a missing tag reads as the empty list
GetAll(m, key) == IF key \in DOMAIN m THEN m[key] ELSE <<>>

\* metadata[key] = value
Put(m, key, value) ==
    [k \in DOMAIN m \cup {key} |-> IF k = key THEN value ELSE m[k]]

LitVariousArtists ==
    <<"v","a","r","i","o","u","s"," ","a","r","t","i","s","t","s">>

\* "; ".join(feat)
RECURSIVE JoinGuests(_, _)
JoinGuests(feat, k) ==
    IF k > Len(feat) THEN <<>>
    ELSE IF k = Len(feat) THEN feat[k]
    ELSE feat[k] \o <<";", " ">> \o JoinGuests(feat, k + 1)

\* a suffix written without its parentheses
WithFeatSuffixBare(title, feat) ==
    title \o <<" ">> \o LitFeat \o <<" ">> \o JoinGuests(feat, 1)

\* "%s (feat. %s)" % (title, feat_str)
WithFeatSuffix(title, feat) ==
    title \o <<" ", "(">> \o LitFeat \o <<" ">> \o JoinGuests(feat, 1) \o <<")">>

\* metadata[key] = std, when std differs from what the key held
PutIfChanged(m, key, held, std) ==
    IF std # held THEN Put(m, key, std) ELSE m

\* the string held standardized against the list, when neither is empty
StandardizedAgainst(held, list) ==
    IF held # <<>> /\ list # <<>>
    THEN _standardize_join_phrases(held, list)
    ELSE held

\* the pre-pass on one key and the list that goes with it
StandardizeKey(m, key, listKey) ==
    PutIfChanged(m, key, Get(m, key),
                 StandardizedAgainst(Get(m, key), GetAll(m, listKey)))

\* the pre-pass of both processors on the credit key and on its sort key:
\* the record after it
JoinPhrasePrePass(m, credit, creditList, sort, sortList) ==
    StandardizeKey(StandardizeKey(m, credit, creditList), sort, sortList)

\* a reduction that writes the lead to the credits of the track and of the
\* release alike
ReduceBothCredits(m, credit, sort, lead) ==
    LET m1 == Put(Put(m, "artist", lead), "albumartist", lead)
    IN  IF Get(m1, sort) # <<>>
        THEN Put(m1, sort, _split_artist_feat(Get(m1, sort)).lead)
        ELSE m1

\* the credit key and its sort key reduced to their leads
ReduceToLead(m, credit, sort, lead) ==
    LET m1 == Put(m, credit, lead)
    IN  IF Get(m1, sort) # <<>>
        THEN Put(m1, sort, _split_artist_feat(Get(m1, sort)).lead)
        ELSE m1

\* the title key with the suffix appended whatever the title ends with
AppendSuffixAlways(m, title, feat) ==
    IF Get(m, title) # <<>>
    THEN Put(m, title, WithFeatSuffix(Get(m, title), feat))
    ELSE m

\* the title key with the suffix appended once
AppendSuffix(m, title, feat) ==
    IF Get(m, title) # <<>> /\ ~_already_has_feat_suffix(Get(m, title))
    THEN Put(m, title, WithFeatSuffix(Get(m, title), feat))
    ELSE m

\* a helper that leaves a title with a suffix alone
ApplyFeatSuffixSkipExisting(title, guests) ==
    IF _already_has_feat_suffix(title) THEN title
    ELSE WithFeatSuffix(title, guests)

\* the suffix-replace helper the tests call, absent from the sources: a title
\* that ends with a suffix has the text from the opening parenthesis of the
\* suffix on replaced by a suffix naming guests, any other title has the
\* suffix appended
_apply_feat_suffix(title, guests) ==
    LET found == {p \in 1..Len(title) : SuffixAt(title, p)}
    IN  IF found = {} THEN WithFeatSuffix(title, guests)
        ELSE LET p == CHOOSE q \in found : \A r \in found : q <= r
             IN  SubSeq(title, 1, p - 1)
                     \o Tail(WithFeatSuffix(<<>>, guests))

\* move_album_featartists(tagger, metadata, release): the record after the call
\* the record after the split sp of its credit: left alone without guests,
\* else the credit reduced and the title given its suffix
MoveGuests(m, credit, sort, title, sp) ==
    IF sp.guests = <<>> THEN m
    ELSE AppendSuffix(ReduceToLead(m, credit, sort, sp.lead), title, sp.guests)

\* the album processor after its pre-pass
AlbumAfterPrePass(m) ==
    IF casefold(strip(Get(m, "albumartist"))) = LitVariousArtists THEN m
    ELSE MoveGuests(m, "albumartist", "albumartistsort", "album",
                    _split_artist_feat(Get(m, "albumartist")))

move_album_featartists(m) ==
    IF Get(m, "albumartist") = <<>> THEN m
    ELSE IF _is_whitelisted_credit_or_lead(Get(m, "albumartist")) THEN m
    ELSE AlbumAfterPrePass(
             JoinPhrasePrePass(m, "albumartist", "~albumartists",
                               "albumartistsort", "~albumartists_sort"))

\* move_track_featartists(tagger, metadata, track, release): the record after
\* the call
\* the tag written whenever there are guests
TagGuestsWhateverOption(m, feat) ==
    IF feat # <<>> THEN Put(m, "FEATURED_ARTISTS", feat) ELSE m

\* the FEATURED_ARTISTS tag written when there are guests and the option
\* is set
\* (with the entry absent from the store the read raises KeyError and the
\* record stays as it is at that point)
TagGuests(m, feat) ==
    IF feat # <<>> /\ ~KeyMissing("add_featured_artists_tag")
                  /\ setting["add_featured_artists_tag"]
    THEN Put(m, "FEATURED_ARTISTS", feat)
    ELSE m

\* the track processor after the split sp of the artist
TrackSplit(m, sp) ==
    TagGuests(MoveGuests(m, "artist", "artistsort", "title", sp), sp.guests)

\* the track processor after its pre-pass
TrackAfterPrePass(m) == TrackSplit(m, _split_artist_feat(Get(m, "artist")))

move_track_featartists(m) ==
    IF _is_whitelisted_credit_or_lead(Get(m, "artist")) THEN m
    ELSE TrackAfterPrePass(JoinPhrasePrePass(m, "artist", "artists",
                                             "artistsort", "~artists_sort"))

\* the track processor raises KeyError where it reads the option: there
\* are guests after the split sp and the store has no entry for the option
RaisesAtOption(sp) ==
    sp.guests # <<>> /\ KeyMissing("add_featured_artists_tag")

\* the track processor raises after the pre-pass left the record m
RaisesAfterPrePass(m) == RaisesAtOption(_split_artist_feat(Get(m, "artist")))

\* move_track_featartists raises to its caller
TrackRaises(m) ==
    /\ ~_is_whitelisted_credit_or_lead(Get(m, "artist"))
    /\ RaisesAfterPrePass(JoinPhrasePrePass(m, "artist", "artists",
                                            "artistsort", "~artists_sort"))

\* FeaturedArtistsOptionsPage.save with the box checked or not and text in
\* the whitelist box: the store after it
SaveOptions(store, checked, text) ==
    Put(Put(store, "add_featured_artists_tag", checked),
        "featured_artists_whitelist", strip(text))

-----------------------------------------------------------------------------
(* Guardrails: the collision suffix and the post-save processor *)

Digits == {"0", "1", "2", "3", "4", "5", "6", "7", "8", "9"}

\* the character of s at position i, "" outside s
CharAt(s, i) == IF i \in 1..Len(s) THEN s[i] ELSE ""

\* the number of digits of s from position i on
RECURSIVE DigitRun(_, _)
DigitRun(s, i) ==
    IF CharAt(s, i) \in Digits THEN 1 + DigitRun(s, i + 1) ELSE 0

\* os.path.basename(path): what follows the last "/"
Basename(path) ==
    SubSeq(path, Max({0} \cup {i \in 1..Len(path) : path[i] = "/"}) + 1,
           Len(path))

\* "^(?P<stem>.*) \((?P<num>\d+)\)(?P<ext>\.[^.]*)$" matches name: a stem
\* without line break, " (", digits, ")", "." and no further "."
_COLLISION_SUFFIX_RE(name) ==
    \E i \in 1..Len(name) :
        /\ \A k \in 1..(i - 1) : name[k] # NL
        /\ name[i] = " "
        /\ CharAt(name, i + 1) = "("
        /\ \E n \in 1..DigitRun(name, i + 2) :
              /\ CharAt(name, i + 2 + n) = ")"
              /\ CharAt(name, i + 3 + n) = "."
              /\ \A k \in (i + 4 + n)..Len(name) : name[k] # "."

\* a test that takes " (n)" at the end of the name, extension or not
HasNumberInParentheses(path) ==
    \E i \in 1..Len(path) :
        /\ path[i] = " "
        /\ CharAt(path, i + 1) = "("
        /\ \E n \in 1..DigitRun(path, i + 2) : CharAt(path, i + 2 + n) = ")"

_has_collision_suffix(path) == _COLLISION_SUFFIX_RE(Basename(path))

\* del metadata[key]
Del(m, key) == [k \in DOMAIN m \ {key} |-> m[k]]

\* _rerun_naming_with_flag(file_obj): the file after it, when the rename of
\* the host raises or gives the path renamed (empty for none)
_rerun_naming_with_flag(file, raised, renamed) ==
    [file EXCEPT
        !.metadata = Put(file.metadata, "_guardrails_has_collision", <<"1">>),
        !.filename = IF ~raised /\ renamed # <<>> /\ renamed # file.filename
                     THEN renamed ELSE file.filename,
        !.base_filename = IF ~raised /\ renamed # <<>> /\ renamed # file.filename
                          THEN Basename(renamed) ELSE file.base_filename]

\* a rollback that leaves the file where it is
RollbackNothing(file, orig, moveFails) == file

\* _rollback_move(file_obj): the file after it, orig being the path the
\* pre-save processor recorded (empty for none); the move may fail
_rollback_move(file, orig, moveFails) ==
    IF orig = <<>> \/ file.filename = orig \/ moveFails THEN file
    ELSE [file EXCEPT !.filename = orig, !.base_filename = Basename(orig)]

\* the branch of both processors taken without a collision suffix
ClearFlag(file) ==
    [file EXCEPT !.metadata = Del(file.metadata, "_guardrails_has_collision")]

\* file_post_save_processor of file-collision-protection/guardrails.py: the
\* file after it (a missing option entry raises into the outer handler)
PostSaveRollback(file, orig, moveFails, raised, renamed) ==
    IF _has_collision_suffix(file.filename)
    THEN IF KeyMissing("guardrails_fatal_on_collision") THEN file
         ELSE IF setting["guardrails_fatal_on_collision"]
         THEN _rollback_move([file EXCEPT !.state = "error"], orig, moveFails)
         ELSE _rerun_naming_with_flag(file, raised, renamed)
    ELSE ClearFlag(file)

\* the bookkeeping of _rerun_naming_with_flag and of _rollback_move on
\* tagger.files when file f went from old to new: the key old deleted if
\* there, the key new set to f
TaggerAfterMove(files, old, new, f) ==
    [p \in (DOMAIN files \ {old}) \cup {new} |->
        IF p = new THEN f ELSE files[p]]

\* shutil.move(old, new) on the disk, a map from paths to the files whose
\* content they hold: whatever was at new is replaced by what was at old
DiskAfterMove(disk, old, new) ==
    [p \in (DOMAIN disk \ {old}) \cup {new} |->
        IF p = new THEN disk[old] ELSE disk[p]]

\* file_pre_save_processor(file_obj): the file after it
file_pre_save_processor(file) ==
    [file EXCEPT !.original = file.filename]

\* file_post_save_processor of guardrails.py: the file after it (a missing
\* option entry reads as not fatal)
PostSaveMark(file, raised, renamed) ==
    IF _has_collision_suffix(file.filename)
    THEN IF ~KeyMissing("guardrails_fatal_on_collision")
            /\ setting["guardrails_fatal_on_collision"]
         THEN [file EXCEPT !.state = "error"]
         ELSE _rerun_naming_with_flag(file, raised, renamed)
    ELSE ClearFlag(file)

-----------------------------------------------------------------------------
(* Bounds and input sets *)

\* pieces concatenated into an argument of the parsing helpers
MaxPieces == 3

\* guest names after the join phrase of a credit handed to the processors
MaxGuests == 2

\* the concatenations of at most n of the strings of P
RECURSIVE Concats(_, _)
Concats(P, n) ==
    IF n = 0 THEN {<<>>}
    ELSE LET shorter == Concats(P, n - 1)
         IN  shorter \cup {x \o p : x \in shorter, p \in P}

\* the sequences of at most n elements of S
RECURSIVE SeqsUpTo(_, _)
SeqsUpTo(S, n) ==
    IF n = 0 THEN {<<>>}
    ELSE LET shorter == SeqsUpTo(S, n - 1)
         IN  shorter \cup {Append(x, e) : x \in shorter, e \in S}

\* names joined by " & "
RECURSIVE JoinAmp(_, _)
JoinAmp(names, k) ==
    IF k > Len(names) THEN <<>>
    ELSE IF k = Len(names) THEN names[k]
    ELSE names[k] \o <<" ", "&", " ">> \o JoinAmp(names, k + 1)

ParsePieces ==
    { <<"A">>, <<"a">>, <<"B">>, <<" ">>, <<NL>>, <<"(">>, <<")">>,
      <<"&">>, <<",">>, <<"/">>, LitAnd, <<" ">> \o LitAnd \o <<" ">>,
      LitFeat, LitWith }

\* the names of the scenarios of the tests
LeadArtist == <<"L","e","a","d"," ","A","r","t","i","s","t">>
Guest      == <<"G","u","e","s","t">>
GuestA     == Guest \o <<" ","A">>
GuestB     == Guest \o <<" ","B">>
GuestC     == Guest \o <<" ","C">>
SongTitle  == <<"S","o","n","g"," ","T","i","t","l","e">>
AlbumTitle == <<"A","l","b","u","m"," ","T","i","t","l","e">>
SongName   == <<"S","o","n","g"," ","N","a","m","e">>
OldGuest   == <<"O","l","d"," ">> \o Guest
NewGuest   == <<"N","e","w"," ">> \o Guest

\* " (Guest A) & Guest B, guest a / Guest C "
GuestTailScenario ==
    <<" ","(">> \o GuestA \o <<")"," ","&"," ">> \o GuestB \o <<","," ">>
        \o casefold(GuestA) \o <<" ","/"," ">> \o GuestC \o <<" ">>

\* "Lead Artist feat. Guest A & (Guest B)"
SplitScenario ==
    LeadArtist \o <<" ">> \o LitFeat \o <<" ">> \o GuestA
        \o <<" ","&"," ","(">> \o GuestB \o <<")">>

\* "A & B feat. C": separators in the lead
LeadSeparatorScenario ==
    <<"A"," ","&"," ","B"," ">> \o LitFeat \o <<" ","C">>

\* "A feat. B with C": a second token in the tail
LaterTokenScenario ==
    <<"A"," ">> \o LitFeat \o <<" ","B"," ">> \o LitWith \o <<" ","C">>

\* "Lead Artist feat. (Guest A) & (Guest B)": each guest in its own brackets
WrappedGuestsScenario ==
    LeadArtist \o <<" ">> \o LitFeat \o <<" ","(">> \o GuestA
        \o <<")"," ","&"," ","(">> \o GuestB \o <<")">>

ParseInputs ==
    Concats(ParsePieces, MaxPieces)
        \cup {GuestTailScenario, SplitScenario,
              LeadSeparatorScenario, LaterTokenScenario, WrappedGuestsScenario}

VariousArtists ==
    <<"V","a","r","i","o","u","s"," ","A","r","t","i","s","t","s">>

\* a token with blanks around it
Token(lit) == <<" ">> \o lit \o <<" ">>

\* what stands between the lead "A" and the guests: nothing, a token, a
\* variant of one, or a guest and a second join phrase
JoinWords ==
    { <<>>, Token(LitFeat), Token(LitWith),
      <<" ","f","t"," ">>,
      <<" ","f","t"," ","B">> \o Token(LitWith),
      <<" ","f","e","a","t"," ","B"," ","f","t"," ">> }

GuestNames == { <<"B">>, <<"C">> }

\* credits with the lead "A", with the lead "Various Artists", and without
\* a lead
Credits ==
    LET guests == {JoinAmp(g, 1) : g \in SeqsUpTo(GuestNames, MaxGuests)}
    IN  {<<"A">> \o j \o g : j \in JoinWords, g \in guests}
        \cup {VariousArtists \o j \o g : j \in {<<>>, Token(LitFeat)}, g \in guests}
        \cup {j \o g : j \in {<<>>, Token(LitFeat), Token(LitWith)}, g \in guests}

Titles ==
    { <<>>, <<"T">>,
      <<"T"," ","(">> \o LitFeat \o <<" ","X",")">>,
      <<"T"," ","(","W","i","t","h"," ","X",")"," ">> }

\* the multi-valued credit lists the host supplies with a record
CreditLists == { <<>>, << <<"A">>, <<"B">> >>, << <<"A">>, <<"e">> >> }

\* a record as the host hands it over: the same credit and title for the
\* track and for its release, the sort names equal to the credits when the
\* host gives sort names, the tags the host does not give left out
Record(credit, title, withSort, list) ==
    LET all == [artist |-> credit, albumartist |-> credit,
                title |-> title, album |-> title,
                artistsort |-> IF withSort THEN credit ELSE <<>>,
                albumartistsort |-> IF withSort THEN credit ELSE <<>>,
                artists |-> list, albumartists |-> list,
                artists_sort |-> IF withSort THEN list ELSE <<>>,
                albumartists_sort |-> IF withSort THEN list ELSE <<>>]
        tag(k) == CASE k = "artists" -> "artists"
                    [] k = "albumartists" -> "~albumartists"
                    [] k = "artists_sort" -> "~artists_sort"
                    [] k = "albumartists_sort" -> "~albumartists_sort"
                    [] OTHER -> k
        given == {k \in DOMAIN all : all[k] # <<>>}
    IN  [t \in {tag(k) : k \in given} |->
            all[CHOOSE k \in given : tag(k) = t]]

\* artist "Lead Artist feat. Guest A & Guest B", title "Song Title"
TrackScenario ==
    [artist |-> LeadArtist \o <<" ">> \o LitFeat \o <<" ">> \o GuestA
                    \o <<" ","&"," ">> \o GuestB,
     title  |-> SongTitle]

\* albumartist "Lead Artist feat. Guest", album "Album Title"
AlbumScenario ==
    [albumartist |-> LeadArtist \o <<" ">> \o LitFeat \o <<" ">> \o Guest,
     album       |-> AlbumTitle]

Records ==
    {Record(c, t, s, l) :
        c \in Credits, t \in Titles, s \in BOOLEAN, l \in CreditLists}
    \cup {TrackScenario, AlbumScenario}

\* the whitelist box empty, or naming the full credit "A feat. B" and the
\* artist "various artists"
WhitelistTexts ==
    { <<>>,
      <<" ","A"," ">> \o LitFeat \o <<" ","B",";">> \o LitVariousArtists \o <<NL>> }

Settings ==
    [featured_artists_whitelist : WhitelistTexts,
     add_featured_artists_tag : BOOLEAN]

-----------------------------------------------------------------------------
(* The processors called by the host on a record *)

Init ==
    /\ md \in Records
    /\ pre = md
    /\ setting \in Settings
    /\ last = "load"
    /\ arg = <<>>
    /\ fn = "none"
    /\ out = <<>>

MoveTrack ==
    /\ pre' = md
    /\ md' = move_track_featartists(md)
    /\ last' = "track"
    /\ UNCHANGED <<setting, arg, fn, out>>

MoveAlbum ==
    /\ pre' = md
    /\ md' = move_album_featartists(md)
    /\ last' = "album"
    /\ UNCHANGED <<setting, arg, fn, out>>

Next == MoveTrack \/ MoveAlbum

Spec == Init /\ [][Next]_vars

-----------------------------------------------------------------------------
(* The parsing helpers applied to an argument *)

NoRecord == [title |-> <<"T">>]
NoSetting == [featured_artists_whitelist |-> <<>>,
              add_featured_artists_tag |-> FALSE]

InitParse ==
    /\ arg \in ParseInputs
    /\ fn = "none"
    /\ out = <<>>
    /\ md = NoRecord
    /\ pre = NoRecord
    /\ setting = NoSetting
    /\ last = "load"

SplitArtistFeat ==
    /\ fn = "none"
    /\ fn' = "_split_artist_feat"
    /\ out' = _split_artist_feat(arg)
    /\ UNCHANGED <<arg, md, pre, setting, last>>

NormalizeFeatList ==
    /\ fn = "none"
    /\ fn' = "_normalize_feat_list"
    /\ out' = _normalize_feat_list(arg)
    /\ UNCHANGED <<arg, md, pre, setting, last>>

StripWrappers ==
    /\ fn = "none"
    /\ fn' = "_strip_wrappers"
    /\ out' = _strip_wrappers(arg)
    /\ UNCHANGED <<arg, md, pre, setting, last>>

NextParse == SplitArtistFeat \/ NormalizeFeatList \/ StripWrappers

SpecParse == InitParse /\ [][NextParse]_vars

-----------------------------------------------------------------------------
(* The suffix-replace helper applied to a title and a guest list *)

SuffixBases == { <<>>, <<"T">>, <<"T", " ">>, SongName }

OldSuffixes ==
    { <<>>,
      <<" ","(">> \o LitFeat \o <<" ">> \o OldGuest \o <<")">>,
      <<"(","W","i","t","h"," ","X",")"," ">>,
      <<" ","("," ">> \o LitFeaturing \o <<" ","X",")">>,
      <<" ","[">> \o LitFeat \o <<" ","X","]">> }

SuffixGuests ==
    SeqsUpTo({NewGuest, <<"B">>, <<"C">>}, MaxGuests) \ {<<>>}

InitSuffix ==
    /\ arg \in [title : {b \o s : b \in SuffixBases, s \in OldSuffixes},
                guests : SuffixGuests]
    /\ fn = "none"
    /\ out = <<>>
    /\ md = NoRecord
    /\ pre = NoRecord
    /\ setting = NoSetting
    /\ last = "load"

ApplyFeatSuffix ==
    /\ fn = "none"
    /\ fn' = "_apply_feat_suffix"
    /\ out' = _apply_feat_suffix(arg.title, arg.guests)
    /\ UNCHANGED <<arg, md, pre, setting, last>>

NextSuffix == ApplyFeatSuffix

SpecSuffix == InitSuffix /\ [][NextSuffix]_vars

-----------------------------------------------------------------------------
(* The join-phrase helper applied to a credit and a list of names *)

JoinPieces ==
    { <<"A">>, <<"B">>, <<"x">>, <<NL>>,
      <<" ","f","t"," ">>, <<" ","F","e","a","t","."," ">>,
      <<" ">> \o LitFeaturing \o <<" ">>,
      <<NL,"f","t",NL>> }

JoinLists ==
    { <<>>, << <<"A">> >>, << <<"A">>, <<"B">> >>, << <<"B">>, <<"A">> >>,
      << <<"A">>, <<"e">> >> }

InitJoin ==
    /\ arg \in [artists_str : Concats(JoinPieces, MaxPieces),
                artists_list : JoinLists,
                raises : BOOLEAN]
    /\ fn = "none"
    /\ out = <<>>
    /\ md = NoRecord
    /\ pre = NoRecord
    /\ setting = NoSetting
    /\ last = "load"

StandardizeJoinPhrases ==
    /\ fn = "none"
    /\ fn' = "_standardize_join_phrases"
    /\ out' = TryStandardize(arg.artists_str, arg.artists_list, arg.raises)
    /\ UNCHANGED <<arg, md, pre, setting, last>>

NextJoin == StandardizeJoinPhrases

SpecJoin == InitJoin /\ [][NextJoin]_vars

-----------------------------------------------------------------------------
(* The options page saved and the processors called, in any order *)

CommaCredit == <<"A"," ">> \o LitFeat \o <<" ","B",","," ","C">>

PlainCredit == <<"A"," ">> \o LitFeat \o <<" ","B">>

\* what is typed into the whitelist box
BoxTexts ==
    { <<>>, <<" ">> \o PlainCredit \o <<" ">>, CommaCredit,
      <<"B", NL>> \o CommaCredit, <<"B", NL>> \o PlainCredit, <<"B">> }

StoreKeys == {"add_featured_artists_tag", "featured_artists_whitelist"}

\* the store with entries for keys only
StoreOf(keys, checked, text) ==
    [k \in keys |-> IF k = "add_featured_artists_tag" THEN checked ELSE text]

\* the stores a call can find: each entry present or absent
Stores ==
    {StoreOf(keys, checked, strip(text)) :
        keys \in SUBSET StoreKeys, checked \in BOOLEAN, text \in BoxTexts}

StoreRecords ==
    {Record(c, <<"T">>, s, <<>>) :
        c \in {PlainCredit, CommaCredit, <<"A">>,
               <<"B">> \o Token(LitWith) \o <<"A">>},
        s \in BOOLEAN}
    \cup {TrackScenario, AlbumScenario}

InitStore ==
    /\ md \in StoreRecords
    /\ pre = md
    /\ setting \in Stores
    /\ last = "load"
    /\ arg = <<>>
    /\ fn = "none"
    /\ out = "none"

Save ==
    \E checked \in BOOLEAN, text \in BoxTexts :
        /\ setting' = SaveOptions(setting, checked, text)
        /\ arg' = text
        /\ fn' = "save"
        /\ last' = "save"
        /\ UNCHANGED <<md, pre, out>>

TrackCall ==
    \E m \in StoreRecords :
        /\ pre' = m
        /\ md' = move_track_featartists(m)
        /\ out' = IF TrackRaises(m) THEN "KeyError" ELSE "returned"
        /\ last' = "track"
        /\ UNCHANGED <<setting, arg, fn>>

AlbumCall ==
    \E m \in StoreRecords :
        /\ pre' = m
        /\ md' = move_album_featartists(m)
        /\ out' = "returned"
        /\ last' = "album"
        /\ UNCHANGED <<setting, arg, fn>>

NextStore == Save \/ TrackCall \/ AlbumCall

SpecStore == InitStore /\ [][NextStore]_vars

-----------------------------------------------------------------------------
(* Guardrails: files saved by the host and handed to the post-save processor *)

\* the paths the host saves a file to
SavedNames ==
    {stem \o num \o ext :
        stem \in { <<"d", "/", "a">>,
                   <<"d", " ", "(", "1", ")", ".", "x", "/", "a">> },
        num  \in { <<>>, <<" ", "(", "1", ")">>, <<" ", "(", "1", "2", ")">>,
                   <<"(", "1", ")">>, <<" ", "(", ")">>, <<" ", "(", "x", ")">> },
        ext  \in { <<>>, <<".", "m">>, <<".">>, <<".", "t", ".", "g">> }}

\* what the rename of the host does when naming is run again: it raises,
\* or gives no path, another path, or a path with a collision suffix
Renames ==
    {[raised |-> TRUE, path |-> <<>>]}
    \cup {[raised |-> FALSE, path |-> p] :
            p \in { <<>>, <<"d", "/", "b", ".", "m">>,
                    <<"a", " ", "(", "1", ")", ".", "m">> }}

\* the pre-save hook missing, the move back done, the move back failing
Rollbacks ==
    { [hook |-> FALSE, moveFails |-> FALSE],
      [hook |-> TRUE, moveFails |-> FALSE],
      [hook |-> TRUE, moveFails |-> TRUE] }

GuardStores ==
    { <<>>, [guardrails_fatal_on_collision |-> FALSE],
      [guardrails_fatal_on_collision |-> TRUE] }

\* the two modules that register a post-save processor
GuardModules == {"file-collision-protection/guardrails.py", "guardrails.py"}

\* the file object: arg its filename, md its metadata, out its state
FileNow ==
    [filename |-> arg, base_filename |-> Basename(arg), metadata |-> md,
     state |-> out]

InitGuard ==
    /\ arg \in SavedNames
    /\ md = [title |-> <<"T">>]
    /\ out = "normal"
    /\ pre = [filename |-> arg, metadata |-> md]
    /\ setting \in GuardStores
    /\ fn \in GuardModules
    /\ last = "load"

\* the host saves the file to a path and calls the pre-save and post-save
\* processors of file-collision-protection/guardrails.py
SaveWithRollback ==
    /\ fn = "file-collision-protection/guardrails.py"
    /\ \E name \in SavedNames, back \in Rollbacks, rename \in Renames :
          LET after == PostSaveRollback([FileNow EXCEPT !.filename = name,
                                                        !.base_filename = Basename(name)],
                                        IF back.hook THEN arg ELSE <<>>,
                                        back.moveFails,
                                        rename.raised, rename.path)
          IN  /\ pre' = [filename |-> name, metadata |-> md]
              /\ arg' = after.filename
              /\ md' = after.metadata
              /\ out' = after.state
    /\ last' = "post_save"
    /\ UNCHANGED <<setting, fn>>

\* the host saves the file to a path and calls the post-save processor of
\* guardrails.py
SaveWithMark ==
    /\ fn = "guardrails.py"
    /\ \E name \in SavedNames, rename \in Renames :
          LET after == PostSaveMark([FileNow EXCEPT !.filename = name,
                                                        !.base_filename = Basename(name)],
                                    rename.raised, rename.path)
          IN  /\ pre' = [filename |-> name, metadata |-> md]
              /\ arg' = after.filename
              /\ md' = after.metadata
              /\ out' = after.state
    /\ last' = "post_save"
    /\ UNCHANGED <<setting, fn>>

NextGuard == SaveWithRollback \/ SaveWithMark

SpecGuard == InitGuard /\ [][NextGuard]_vars

-----------------------------------------------------------------------------
(* Guardrails: two files saved by the host in any interleaving, with the
   disk and tagger.files *)

FileIds == {"f1", "f2"}

PathA == <<"d", "/", "a", ".", "m">>

PathB == <<"d", "/", "b", ".", "m">>

\* the path the naming script gives a title that ends with " (5)"
PathSymphony == <<"d", "/", "s", " ", "(", "5", ")", ".", "m">>

\* the path of the alternate template of the naming script
PathAlternate == <<"e", "/", "a", ".", "m">>

\* the paths the naming script gives
ScriptPaths == {PathA, PathB, PathSymphony}

\* "%s (%d)%s" % (tmp_filename, 1, ext) of the host: " (1)" before the
\* extension
Suffixed(path) ==
    SubSeq(path, 1, Max({0} \cup {i \in 1..Len(path) : path[i] = "."}) - 1)
        \o <<" ", "(", "1", ")">>
        \o SubSeq(path, Max({0} \cup {i \in 1..Len(path) : path[i] = "."}),
                  Len(path))

\* the path the host saves to when the naming script gives target for the
\* file at old: target when it is free, else target with " (1)", empty when
\* that is taken too
Available(disk, target, old) ==
    IF target = old \/ target \notin DOMAIN disk THEN target
    ELSE IF Suffixed(target) = old \/ Suffixed(target) \notin DOMAIN disk
         THEN Suffixed(target)
         ELSE <<>>

\* a file object of the host at path, not saved yet
FileAt(path) ==
    [filename |-> path, base_filename |-> Basename(path),
     metadata |-> [title |-> <<"T">>], state |-> "normal",
     original |-> <<>>, phase |-> "idle", suffixed |-> FALSE]

\* the outcomes of the rename run again: it raises, gives no path, the same
\* path or the path of the alternate template
RerunRenames ==
    { [raised |-> TRUE, path |-> <<>>], [raised |-> FALSE, path |-> <<>>],
      [raised |-> FALSE, path |-> PathAlternate] }

\* register_file_pre_save_processor exists in the host or not
HookStates == {"pre_save registered", "pre_save missing"}

\* what is kept of the last call of the post-save processor while it is the
\* last step: the file, its file object and the disk before the call, and
\* whether the move back failed
NoPostSave == [file |-> "none"]

InitTagger ==
    /\ md = [f \in FileIds |-> FileAt(IF f = "f1" THEN PathA ELSE PathB)]
    /\ out = [p \in {PathA, PathB} |-> IF p = PathA THEN "f1" ELSE "f2"]
    /\ arg = out
    /\ pre = NoPostSave
    /\ setting \in GuardStores
    /\ fn \in HookStates
    /\ last = "load"

\* the file f is where its file object says
OnDisk(f) == md[f].filename \in DOMAIN arg /\ arg[md[f].filename] = f

\* the host calls the pre-save processor on a file about to be saved
PreSave ==
    /\ fn = "pre_save registered"
    /\ \E f \in FileIds :
          /\ md[f].phase = "idle"
          /\ OnDisk(f)
          /\ md' = [md EXCEPT ![f] = [file_pre_save_processor(md[f])
                                         EXCEPT !.phase = "presaved"]]
    /\ last' = "pre_save"
    /\ pre' = NoPostSave
    /\ UNCHANGED <<arg, out, setting, fn>>

\* the file f saved by the host at dest, the naming script having given
\* target; a save that succeeded leaves the file in the normal state
HostSaved(f, target, dest) ==
    /\ dest # <<>>
    /\ md' = [md EXCEPT ![f] = [md[f] EXCEPT !.filename = dest,
                                            !.base_filename = Basename(dest),
                                            !.phase = "saved",
                                            !.state = "normal",
                                            !.suffixed = (dest # target)]]
    /\ out' = TaggerAfterMove(out, md[f].filename, dest, f)
    /\ arg' = DiskAfterMove(arg, md[f].filename, dest)

\* the host saves a file and moves it to the path of the naming script, with
\* " (1)" when that path is taken by another file
HostSave ==
    /\ \E f \in FileIds, target \in ScriptPaths :
          /\ md[f].phase = IF fn = "pre_save registered"
                           THEN "presaved" ELSE "idle"
          /\ OnDisk(f)
          /\ HostSaved(f, target, Available(arg, target, md[f].filename))
    /\ last' = "host_save"
    /\ pre' = NoPostSave
    /\ UNCHANGED <<setting, fn>>

\* the file f after file_post_save_processor left its file object as after
PostSaved(f, after, moveFails) ==
    /\ md' = [md EXCEPT ![f] = [after EXCEPT !.phase = "idle"]]
    /\ out' = IF after.filename # md[f].filename
              THEN TaggerAfterMove(out, md[f].filename, after.filename, f)
              ELSE out
    /\ arg' = IF after.filename # md[f].filename
              THEN DiskAfterMove(arg, md[f].filename, after.filename)
              ELSE arg
    /\ pre' = [file |-> f, before |-> md[f], disk |-> arg,
               moveFails |-> moveFails]

\* nothing is at the path of the file f: a move of it raises
Missing(f) == md[f].filename \notin DOMAIN arg

\* the host calls the post-save processor on a saved file; the move back
\* and the rename run again may fail, and do when nothing is at the path
PostSave ==
    /\ \E f \in FileIds, moveFails \in BOOLEAN, rename \in RerunRenames :
          /\ md[f].phase = "saved"
          /\ rename.path \notin DOMAIN arg
          /\ PostSaved(f, PostSaveRollback(md[f], md[f].original,
                                           moveFails \/ Missing(f),
                                           rename.raised \/ Missing(f),
                                           rename.path),
                       moveFails \/ Missing(f))
    /\ last' = "post_save"
    /\ UNCHANGED <<setting, fn>>

NextTagger == PreSave \/ HostSave \/ PostSave

SpecTagger == InitTagger /\ [][NextTagger]_vars

-----------------------------------------------------------------------------
(* The processors called on records with tags empty, missing or already
   written *)

FtCredit == <<"A", " ", "f", "t", " ", "B">>

\* the credits: none, "A feat. B", "A ft B", and "A feat. B & b"
TagCredits ==
    { <<>>, PlainCredit, FtCredit, PlainCredit \o <<" ", "&", " ", "b">> }

\* the names of the two artists of the credit, as the host lists them
TagList == << <<"A">>, <<"B">> >>

\* the record with a sort name and the sort names of the list, for the track
\* and for its release
WithSortNames(m, sort) ==
    Put(Put(Put(Put(m, "artistsort", sort), "albumartistsort", sort),
            "~artists_sort", TagList), "~albumartists_sort", TagList)

\* the record with its credit tags present and empty
WithEmptyCredit(m) == Put(Put(m, "artist", <<>>), "albumartist", <<>>)

\* a record as the host hands it over: a sort name that does not depend on
\* the credit, a FEATURED_ARTISTS tag written earlier, a credit that is
\* absent or present and empty
TagRecord(credit, present, sort, title, list, old) ==
    LET base == Record(credit, title, FALSE, list)
        sorted == IF sort = <<>> THEN base ELSE WithSortNames(base, sort)
        tagged == IF old = <<>> THEN sorted
                  ELSE Put(sorted, "FEATURED_ARTISTS", old)
    IN  IF present /\ credit = <<>> THEN WithEmptyCredit(tagged) ELSE tagged

TagRecords ==
    {TagRecord(c, p, s, t, l, o) :
        c \in TagCredits, p \in BOOLEAN, s \in {<<>>, FtCredit},
        t \in Titles, l \in {<<>>, TagList}, o \in {<<>>, << <<"X">> >>}}

\* the whitelist empty or naming the lead "A", the option off or on
TagSettings ==
    [featured_artists_whitelist : {<<>>, <<"A">>},
     add_featured_artists_tag : BOOLEAN]

InitTags ==
    /\ md \in TagRecords
    /\ pre = md
    /\ setting \in TagSettings
    /\ last = "load"
    /\ arg = <<>>
    /\ fn = "none"
    /\ out = <<>>

SpecTags == InitTags /\ [][Next]_vars

-----------------------------------------------------------------------------
(* Asciifier: asciifier/plugin.py, asciifier/to_ascii.py *)

\* one entry ["c", "repl"] of a map's pairs, c a single character; a
\* character above U+00FF is written by its code point
Pair(ch, repl) == <<<<ch>>, repl>>

\* the pairs of the four maps seeded when the stored maps are empty
DefaultAlpha ==
    << Pair("Å", <<"A", "A">>), Pair("å", <<"a", "a">>),
       Pair("Æ", <<"A", "E">>), Pair("æ", <<"a", "e">>),
       Pair("U+0152", <<"O", "E">>), Pair("U+0153", <<"o", "e">>),
       Pair("U+1E9E", <<"s", "s">>), Pair("ß", <<"s", "s">>), Pair("Ø", <<"O">>),
       Pair("ø", <<"o">>), Pair("U+0141", <<"L">>), Pair("U+0142", <<"l">>),
       Pair("Þ", <<"T", "h">>), Pair("þ", <<"t", "h">>), Pair("Ð", <<"D">>),
       Pair("ð", <<"d">>) >>

DefaultPunct ==
    << Pair("¡", <<"!">>), Pair("¿", <<"?">>), Pair("U+2013", <<"-", "-">>),
       Pair("U+2014", <<"-", "-">>), Pair("U+2015", <<"-", "-">>),
       Pair("«", <<"<", "<">>), Pair("»", <<">", ">">>), Pair("U+2018", <<"'">>),
       Pair("U+2019", <<"'">>), Pair("U+201A", <<",">>), Pair("U+201B", <<"'">>),
       Pair("U+201C", <<"\"">>), Pair("U+201D", <<"\"">>), Pair("U+201E", <<",", ",">>),
       Pair("U+201F", <<"\"">>), Pair("U+2039", <<"<">>), Pair("U+203A", <<">">>),
       Pair("U+2E42", <<",", ",">>), Pair("U+300C", <<"|", "-">>),
       Pair("U+300D", <<"-", "|">>), Pair("U+300E", <<"|", "-">>),
       Pair("U+300F", <<"-", "|">>), Pair("U+301D", <<"\"">>), Pair("U+301E", <<"\"">>),
       Pair("U+301F", <<",", ",">>), Pair("U+FE41", <<"-", "|">>),
       Pair("U+FE42", <<"|", "-">>), Pair("U+FE43", <<"-", "|">>),
       Pair("U+FE44", <<"|", "-">>), Pair("U+FF62", <<"|", "-">>),
       Pair("U+FF63", <<"-", "|">>), Pair("U+30FB", <<".">>) >>

DefaultMath ==
    << Pair("U+2260", <<"!", "=">>), Pair("U+2264", <<"<", "=">>),
       Pair("U+2265", <<">", "=">>), Pair("±", <<"+", "-">>),
       Pair("U+2213", <<"-", "+">>), Pair("×", <<"x">>), Pair("·", <<".">>),
       Pair("÷", <<"/">>), Pair("U+221A", <<"\\", "/">>), Pair("U+2211", <<"E">>),
       Pair("U+226A", <<"<", "<">>), Pair("U+226B", <<">", ">">>) >>

DefaultOther ==
    << Pair("°", <<"o">>), Pair("µ", <<"u">>), Pair("U+0131", <<"i">>),
       Pair("U+2020", <<"t">>), Pair("©", <<"(", "c", ")">>),
       Pair("®", <<"(", "R", ")">>), Pair("U+2665", <<"<", "3">>),
       Pair("U+2192", <<"-", "-", ">">>), Pair("U+2606", <<"*">>), Pair("U+2605", <<"*">>) >>

\* one map of the stored object: {"enabled": ..., "pairs": [...]}
MapSpec(enabled, pairs) == [dict |-> TRUE, enabled |-> enabled, pairs |-> pairs]

\* a value of the stored object that is not an object itself
NotAMapSpec == [dict |-> FALSE, enabled |-> "absent", pairs |-> <<>>]

\* what json.loads gives for the stored text: an object with its entries in
\* insertion order, or no object (the text does not parse, or it parses to
\* something that is not an object)
Parsed(maps) == [json |-> "object", maps |-> maps]

DefaultMaps ==
    << [name |-> "alpha", spec |-> MapSpec("true", DefaultAlpha)],
       [name |-> "punct", spec |-> MapSpec("true", DefaultPunct)],
       [name |-> "math", spec |-> MapSpec("true", DefaultMath)],
       [name |-> "other", spec |-> MapSpec("true", DefaultOther)] >>

\* the stored maps, the defaults when there are none
_load_maps_from_config ==
    LET raw == IF "asciifier_maps" \in DOMAIN setting
               THEN setting["asciifier_maps"] ELSE Parsed(<<>>)
        data == IF raw.json = "object" THEN raw.maps ELSE <<>>
    IN  IF data = <<>> THEN DefaultMaps ELSE data

\* the pairs the loops visit, in order: the maps in insertion order, without
\* the entries that are not objects and the maps that are switched off
RECURSIVE PairsOf(_, _)
PairsOf(maps, k) ==
    IF k > Len(maps) THEN <<>>
    ELSE IF ~maps[k].spec.dict \/ maps[k].spec.enabled = "false"
         THEN PairsOf(maps, k + 1)
         ELSE maps[k].spec.pairs \o PairsOf(maps, k + 1)

\* a pair the loop does not skip: two elements, the first not empty
ValidPair(pair) == Len(pair) = 2 /\ pair[1] # <<>>

\* table[str(ch)] = str(repl) for each pair in turn: a key keeps the
\* replacement of its last pair
TableOf(pairs) ==
    LET valid == {i \in 1..Len(pairs) : ValidPair(pairs[i])}
    IN  [ch \in {pairs[i][1] : i \in valid} |->
            pairs[Max({i \in valid : pairs[i][1] = ch})][2]]

_build_effective_table == TableOf(PairsOf(_load_maps_from_config, 1))

_sanitize_char(ch, table) ==
    IF <<ch>> \in DOMAIN table THEN table[<<ch>>] ELSE <<ch>>

\* "".join(_sanitize_char(ch, table) for ch in text)
RECURSIVE SanitizeJoin(_, _, _)
SanitizeJoin(text, table, k) ==
    IF k > Len(text) THEN <<>>
    ELSE _sanitize_char(text[k], table) \o SanitizeJoin(text, table, k + 1)

to_ascii(text) ==
    IF text = <<>> THEN <<>>
    ELSE SanitizeJoin(text, _build_effective_table, 1)

\* raw.replace("\n", ",").split(",")
RECURSIVE CommaSplit(_, _, _)
CommaSplit(raw, start, i) ==
    IF i > Len(raw) THEN <<SubSeq(raw, start, Len(raw))>>
    ELSE IF raw[i] \in {NL, ","}
         THEN <<SubSeq(raw, start, i - 1)>> \o CommaSplit(raw, i + 1, i + 1)
         ELSE CommaSplit(raw, start, i + 1)

\* the stripped pieces that are not empty, in order
RECURSIVE StrippedNames(_, _)
StrippedNames(pieces, k) ==
    IF k > Len(pieces) THEN <<>>
    ELSE IF strip(pieces[k]) = <<>> THEN StrippedNames(pieces, k + 1)
         ELSE <<strip(pieces[k])>> \o StrippedNames(pieces, k + 1)

_parse_auto_tags(raw) ==
    IF raw = <<>> THEN <<>> ELSE StrippedNames(CommaSplit(raw, 1, 1), 1)

\* a tag's value: a string, or a list of strings
Text(s) == [list |-> FALSE, v |-> s]
Values(l) == [list |-> TRUE, v |-> l]

\* the value written back for one tag
CleanValue(val, table) ==
    IF val.list
    THEN Values([i \in 1..Len(val.v) |-> SanitizeJoin(val.v[i], table, 1)])
    ELSE Text(SanitizeJoin(val.v, table, 1))

RECURSIVE CleanLoop(_, _, _, _)
CleanLoop(m, table, tag_names, k) ==
    IF k > Len(tag_names) THEN m
    ELSE IF tag_names[k] \in DOMAIN m
         THEN CleanLoop(Put(m, tag_names[k], CleanValue(m[tag_names[k]], table)),
                        table, tag_names, k + 1)
         ELSE CleanLoop(m, table, tag_names, k + 1)

\* a cleaning that takes every tag of the record
CleanEveryTag(m, table, tag_names) ==
    [k \in DOMAIN m |-> CleanValue(m[k], table)]

_auto_clean_metadata(m, table, tag_names) == CleanLoop(m, table, tag_names, 1)

\* if not tags or not table: return
CleanIfAny(m, table, tags) ==
    IF tags = <<>> \/ DOMAIN table = {} THEN m
    ELSE _auto_clean_metadata(m, table, tags)

_auto_album_processor(m) ==
    LET auto_enabled == IF "asciifier_auto_enabled" \in DOMAIN setting
                        THEN setting["asciifier_auto_enabled"] ELSE FALSE
        raw_tags == IF "asciifier_auto_tags" \in DOMAIN setting
                    THEN setting["asciifier_auto_tags"] ELSE <<>>
    IN  IF ~auto_enabled THEN m
        ELSE CleanIfAny(m, _build_effective_table, _parse_auto_tags(raw_tags))

_auto_track_processor(m) ==
    LET auto_enabled == IF "asciifier_auto_enabled" \in DOMAIN setting
                        THEN setting["asciifier_auto_enabled"] ELSE FALSE
        raw_tags == IF "asciifier_auto_tags" \in DOMAIN setting
                    THEN setting["asciifier_auto_tags"] ELSE <<>>
    IN  IF ~auto_enabled THEN m
        ELSE CleanIfAny(m, _build_effective_table, _parse_auto_tags(raw_tags))

-----------------------------------------------------------------------------
(* Asciifier: to_ascii run again and again on its own result *)

\* how many times to_ascii is run
MaxRuns == 3

\* the length of the texts to_ascii is first given
MaxText == 2

AsciiChars == {"a", "b", "Æ", "U+2014"}

AsciiTexts == SeqsUpTo(AsciiChars, MaxText)

\* a replacement that is itself mapped; a replacement that holds its own key
ChainPairs == << Pair("a", <<"b">>), Pair("b", <<"c">>) >>
GrowPairs == << Pair("a", <<"a", "a">>) >>

\* user-defined pairs for characters the defaults also map
LigaturePairs == << Pair("Æ", <<"E">>), Pair("U+2014", <<"-">>) >>

\* entries the table builder skips (one element, an empty key) or that can
\* never match a character (a key of two characters), then a valid pair
MalformedPairs ==
    << <<<<"a">>>>, <<<<>>, <<"x">>>>, <<<<"a", "b">>, <<"x">>>>,
       Pair("Æ", <<"A", "e">>) >>

MapSettings ==
    { [json |-> "invalid", maps |-> <<>>],
      [json |-> "array", maps |-> <<>>],
      Parsed(<<>>),
      Parsed(<<[name |-> "chain", spec |-> MapSpec("true", ChainPairs)]>>),
      Parsed(<<[name |-> "grow", spec |-> MapSpec("absent", GrowPairs)]>>),
      Parsed(<<[name |-> "off", spec |-> MapSpec("false", ChainPairs)]>>),
      Parsed(<<[name |-> "first", spec |-> MapSpec("true", LigaturePairs)],
               [name |-> "second", spec |-> MapSpec("true", MalformedPairs)],
               [name |-> "third", spec |-> NotAMapSpec]>>) }

AsciiStores == {<<>>} \cup {[asciifier_maps |-> x] : x \in MapSettings}

\* arg the text first given, out the text now, pre the text before the last
\* run and the number of runs
InitAscii ==
    /\ arg \in AsciiTexts
    /\ setting \in AsciiStores
    /\ out = arg
    /\ pre = [runs |-> 0, text |-> arg]
    /\ fn = "none"
    /\ md = NoRecord
    /\ last = "load"

ToAscii ==
    /\ pre.runs < MaxRuns
    /\ out' = to_ascii(out)
    /\ pre' = [runs |-> pre.runs + 1, text |-> out]
    /\ fn' = "to_ascii"
    /\ last' = "to_ascii"
    /\ UNCHANGED <<arg, md, setting>>

NextAscii == ToAscii

SpecAscii == InitAscii /\ [][NextAscii]_vars

-----------------------------------------------------------------------------
(* Asciifier: the automatic processors called on a record *)

\* how many times a processor is called on the record
MaxCalls == 2

TagTitle == <<"t", "i", "t", "l", "e">>
TagArtists == <<"a", "r", "t", "i", "s", "t", "s">>
TagComment == <<"c", "o", "m", "m", "e", "n", "t">>

AutoTexts == { <<"Æ", "o", "n">>, <<"a", "U+2014", "b">> }

AutoLists == { <<<<"Æ">>, <<"a", "b">>>>, <<<<"x">>>> }

AutoRecords ==
    { [k \in keys |-> IF k = TagArtists THEN Values(l)
                      ELSE IF k = TagTitle THEN Text(t) ELSE Text(c)] :
        keys \in SUBSET {TagTitle, TagArtists, TagComment},
        t \in AutoTexts, l \in AutoLists, c \in AutoTexts }

\* texts of asciifier_auto_tags: one name, names separated by commas and line
\* breaks with blanks around them, a name given twice, no name at all, a tag
\* the record may not have
AutoTagTexts ==
    { TagTitle,
      TagTitle \o <<",", " ">> \o TagArtists \o <<" ", NL>>,
      TagTitle \o <<",">> \o TagTitle,
      <<" ", ",", NL>>,
      TagComment \o <<NL>> \o TagArtists }

AutoMapSettings ==
    { Parsed(<<>>),
      Parsed(<<[name |-> "chain", spec |-> MapSpec("true", ChainPairs)]>>),
      Parsed(<<[name |-> "off", spec |-> MapSpec("false", ChainPairs)]>>) }

AutoStoreKeys ==
    {"asciifier_maps", "asciifier_auto_enabled", "asciifier_auto_tags"}

AutoStores ==
    { [k \in keys |-> IF k = "asciifier_maps" THEN maps
                      ELSE IF k = "asciifier_auto_enabled" THEN enabled
                      ELSE tags] :
        keys \in SUBSET AutoStoreKeys, maps \in AutoMapSettings,
        enabled \in BOOLEAN, tags \in AutoTagTexts }

\* md the record, pre the record before the last call and the number of calls
InitAuto ==
    /\ md \in AutoRecords
    /\ setting \in AutoStores
    /\ pre = [calls |-> 0, before |-> md]
    /\ arg = <<>>
    /\ out = <<>>
    /\ fn = "none"
    /\ last = "load"

AutoTrack ==
    /\ pre.calls < MaxCalls
    /\ md' = _auto_track_processor(md)
    /\ pre' = [calls |-> pre.calls + 1, before |-> md]
    /\ last' = "track"
    /\ UNCHANGED <<arg, out, fn, setting>>

AutoAlbum ==
    /\ pre.calls < MaxCalls
    /\ md' = _auto_album_processor(md)
    /\ pre' = [calls |-> pre.calls + 1, before |-> md]
    /\ last' = "album"
    /\ UNCHANGED <<arg, out, fn, setting>>

NextAuto == AutoTrack \/ AutoAlbum

SpecAuto == InitAuto /\ [][NextAuto]_vars

-----------------------------------------------------------------------------
(* Properties of the parsing helpers, under SpecParse *)

\* s contains a recognized feature token: feat., featuring or with, delimited
\* as in _FEAT_SPLIT_RE, anywhere in s
HasFeatToken(s) == \E i \in 1..Len(s) : FeatTokenLen(s, i) > 0

NoSplit(s) == [lead |-> s, guests |-> <<>>]

\* C7: a credit that contains no feature token is returned verbatim, with an
\* empty guest list: no trimming, no wrapper stripping.
C7_NoTokenVerbatim ==
    (fn = "_split_artist_feat" /\ ~HasFeatToken(arg)) => out = NoSplit(arg)

\* a token-free credit in wrappers or blanks went through the split unchanged
C7_Witness ==
    /\ fn = "_split_artist_feat"
    /\ ~HasFeatToken(arg)
    /\ _strip_wrappers(arg) # arg
    /\ out.lead = arg

\* C8: the lead returned for a credit that contains a token is not split
\* again by a second call.
C8_NoDoubleSplit ==
    (fn = "_split_artist_feat" /\ HasFeatToken(arg))
        => _split_artist_feat(out.lead) = NoSplit(out.lead)

\* the guest list g has no empty or untrimmed entry and no two entries equal
\* under case-folding
Normalized(g) ==
    /\ \A i \in 1..Len(g) : g[i] # <<>> /\ strip(g[i]) = g[i]
    /\ \A i, j \in 1..Len(g) : i < j => casefold(g[i]) # casefold(g[j])

\* the names of a guest tail in their order: its pieces between separators,
\* stripped, the empty ones dropped
TailNames(tail) ==
    LET parts == SepSplit(tail, 1, 1)
    IN  SelectSeq([i \in 1..Len(parts) |-> _strip_wrappers(parts[i])],
                  LAMBDA n : n # <<>>)

\* the first place of name n (under case-folding) in the names c
FirstPlace(c, n) ==
    CHOOSE j \in 1..Len(c) :
        /\ casefold(c[j]) = casefold(n)
        /\ \A i \in 1..(j - 1) : casefold(c[i]) # casefold(n)

\* g holds every name of the tail once, spelled as at its first occurrence,
\* in the order of the first occurrences
FirstSeenOrder(tail, g) ==
    LET c == TailNames(tail)
    IN  /\ \A j \in 1..Len(c) : \E i \in 1..Len(g) : casefold(g[i]) = casefold(c[j])
        /\ \A i \in 1..Len(g) :
              /\ \E j \in 1..Len(c) : casefold(c[j]) = casefold(g[i])
              /\ g[i] = c[FirstPlace(c, g[i])]
        /\ \A i, j \in 1..Len(g) :
              i < j => FirstPlace(c, g[i]) < FirstPlace(c, g[j])

\* C9: the guest list of _normalize_feat_list, and that of _split_artist_feat,
\* has no two entries equal under case-folding and no empty or untrimmed
\* entry; its entries stand in the order of their first occurrence in the
\* tail, spelled as there.
C9_GuestListNormalized ==
    /\ fn = "_normalize_feat_list" =>
          /\ Normalized(out)
          /\ FirstSeenOrder(arg, out)
          /\ arg = GuestTailScenario => out = <<GuestA, GuestB, GuestC>>
    /\ fn = "_split_artist_feat" => Normalized(out.guests)

\* the tail of the test, with "guest a" after "Guest A", gave three guests
C9_Witness ==
    /\ fn = "_normalize_feat_list"
    /\ arg = GuestTailScenario
    /\ out = <<GuestA, GuestB, GuestC>>

\* C10: the guest list is empty exactly when the input contains no feature
\* token.
C10_GuestsIffToken ==
    fn = "_split_artist_feat" => ((out.guests = <<>>) <=> ~HasFeatToken(arg))

-----------------------------------------------------------------------------
(* Properties of the processors, under Spec *)

\* the keys the processor called last works on
CreditKey == IF last = "track" THEN "artist" ELSE "albumartist"
SortKey   == IF last = "track" THEN "artistsort" ELSE "albumartistsort"
TitleKey  == IF last = "track" THEN "title" ELSE "album"
ListKey   == IF last = "track" THEN "artists" ELSE "~albumartists"
SortListKey == IF last = "track" THEN "~artists_sort" ELSE "~albumartists_sort"

Called == last \in {"track", "album"}

\* the names of g written one after the other with "; " between them
RECURSIVE SemicolonJoined(_)
SemicolonJoined(g) ==
    IF g = <<>> THEN <<>>
    ELSE IF Len(g) = 1 THEN g[1]
    ELSE g[1] \o <<";", " ">> \o SemicolonJoined(Tail(g))

\* "(feat. G1; G2)"
SuffixText(g) ==
    <<"(","f","e","a","t","."," ">> \o SemicolonJoined(g) \o <<")">>

\* x, trimmed and case-folded, is an entry of the whitelist
InWhitelist(x) == casefold(strip(x)) \in _parse_whitelist

\* the record the last call was made on has a title that can take a suffix
TitleTakesSuffix ==
    /\ Get(pre, TitleKey) # <<>>
    /\ ~_already_has_feat_suffix(Get(pre, TitleKey))

\* the credit of the record the last call was made on, after the join
\* phrases of the credit have been standardized
StandardizedCredit ==
    Get(JoinPhrasePrePass(pre, CreditKey, ListKey, SortKey, SortListKey),
        CreditKey)

\* C1 as stated: a credit that is not whitelisted and holds a token followed
\* by a guest tail, with a title that has no suffix yet, is reduced to the
\* lead parsed from it, and the title gains " (feat. " + the guests parsed
\* from it joined with "; " + ")".
C1_Stated ==
    LET credit == Get(pre, CreditKey)
        m      == _FEAT_SPLIT_RE(credit)
        sp     == _split_artist_feat(credit)
    IN  (/\ Called
         /\ ~InWhitelist(credit) /\ ~InWhitelist(sp.lead)
         /\ m.at > 0 /\ strip(m.g2) # <<>>
         /\ TitleTakesSuffix)
        => /\ Get(md, CreditKey) = sp.lead
           /\ Get(md, TitleKey)
                 = Get(pre, TitleKey) \o <<" ">> \o SuffixText(sp.guests)

\* C1: when the credit is not whitelisted, the split of the credit as it
\* reads after join-phrase standardization yields at least one guest, and
\* the title is non-empty without a suffix, then after one call the credit
\* is the lead of that split and the title is the old title followed by
\* " (feat. " + the guests in parsed order joined with "; " + ")".
C1_MovesGuestsToTitle ==
    LET credit == Get(pre, CreditKey)
        sp     == _split_artist_feat(StandardizedCredit)
    IN  /\ (/\ Called
            /\ ~InWhitelist(credit)
            /\ ~InWhitelist(_split_artist_feat(credit).lead)
            /\ sp.guests # <<>>
            /\ TitleTakesSuffix)
           => /\ Get(md, CreditKey) = sp.lead
              /\ Get(md, TitleKey)
                    = Get(pre, TitleKey) \o <<" ">> \o SuffixText(sp.guests)
        /\ (last = "track" /\ pre = TrackScenario)
           => /\ md["artist"] = LeadArtist
              /\ md["title"] = SongTitle \o <<" ">> \o SuffixText(<<GuestA, GuestB>>)
        /\ (last = "album" /\ pre = AlbumScenario)
           => /\ md["albumartist"] = LeadArtist
              /\ md["album"] = AlbumTitle \o <<" ">> \o SuffixText(<<Guest>>)

\* the track of the test was processed: two guests moved to the title
C1_Witness ==
    /\ last = "track"
    /\ pre = TrackScenario
    /\ md["artist"] = LeadArtist
    /\ md["title"] = SongTitle \o <<" ">> \o SuffixText(<<GuestA, GuestB>>)

\* C2: a processor applied a second time in succession leaves the record as
\* the first application left it.
C2_Idempotent ==
    [][(Called /\ last' = last) => md' = md]_vars

\* C3: when the credit, or the lead split from it, is an entry of the
\* whitelist, the processor leaves the whole record unchanged.
C3_WhitelistedUntouched ==
    LET credit == Get(pre, CreditKey)
    IN  (/\ Called
         /\ InWhitelist(credit) \/ InWhitelist(_split_artist_feat(credit).lead))
        => md = pre

\* a credit with guests whose lead alone is whitelisted was left as it was
C3_Witness ==
    LET credit == Get(pre, CreditKey)
        sp     == _split_artist_feat(credit)
    IN  /\ Called
        /\ ~InWhitelist(credit)
        /\ InWhitelist(sp.lead)
        /\ sp.guests # <<>>
        /\ TitleTakesSuffix
        /\ md = pre

\* C4: an album whose album artist is "various artists", whatever the case,
\* with or without a token and guests after it, keeps its album title.
C4_VariousArtistsNoSuffix ==
    (/\ last = "album"
     /\ casefold(strip(_split_artist_feat(Get(pre, "albumartist")).lead))
           = LitVariousArtists)
    => Get(md, "album") = Get(pre, "album")

\* C5: a title that already ends with a parenthesised feat., featuring or
\* with suffix is left exactly as it is, also when guests are parsed from
\* the credit.
C5_ExistingSuffixKept ==
    (Called /\ _already_has_feat_suffix(Get(pre, TitleKey)))
    => Get(md, TitleKey) = Get(pre, TitleKey)

\* guests were parsed and the credit reduced, the title with its old suffix
\* stayed
C5_Witness ==
    /\ Called
    /\ _already_has_feat_suffix(Get(pre, TitleKey))
    /\ _split_artist_feat(Get(pre, CreditKey)).guests # <<>>
    /\ Get(md, CreditKey) # Get(pre, CreditKey)
    /\ Get(md, TitleKey) = Get(pre, TitleKey)

-----------------------------------------------------------------------------
(* Property of the suffix-replace helper, under SpecSuffix *)

\* the place of the opening parenthesis of the suffix title ends with
SuffixStart(title) ==
    CHOOSE p \in 1..Len(title) :
        /\ SuffixAt(title, p)
        /\ \A q \in 1..(p - 1) : ~SuffixAt(title, q)

-----------------------------------------------------------------------------
(* Properties of the guest separators, under SpecParse *)

\* the word "and", in any case, at position p with whitespace on both sides
AndWordAt(tail, p) ==
    /\ p > 1
    /\ p + 3 <= Len(tail)
    /\ MatchLit(tail, p, LitAnd)
    /\ IsSpace(tail[p - 1])
    /\ IsSpace(tail[p + 3])

\* position p of the tail belongs to a separator as the separators are
\* described: a comma, ampersand, semicolon or plus sign, a slash with
\* whitespace on both sides, or the word "and" with whitespace on both sides
InSeparator(tail, p) ==
    \/ tail[p] \in {",", "&", ";", "+"}
    \/ /\ tail[p] = "/"
       /\ p > 1 /\ p < Len(tail)
       /\ IsSpace(tail[p - 1]) /\ IsSpace(tail[p + 1])
    \/ \E q \in {p - 2, p - 1, p} : AndWordAt(tail, q)

\* the pieces of the tail between those separators, from position i on, the
\* piece in progress starting at start
RECURSIVE PiecesBetween(_, _, _)
PiecesBetween(tail, start, i) ==
    IF i > Len(tail) THEN <<SubSeq(tail, start, Len(tail))>>
    ELSE IF InSeparator(tail, i)
         THEN <<SubSeq(tail, start, i - 1)>> \o PiecesBetween(tail, i + 1, i + 1)
         ELSE PiecesBetween(tail, start, i + 1)

\* C11: the guest tail is split exactly at commas, ampersands, semicolons
\* and plus signs, at the word "and" between whitespace and at a slash
\* between whitespace: the guests are the names between those places.
C11_SplitAtSeparators ==
    fn = "_normalize_feat_list"
        => out = NormalizeLoop(PiecesBetween(arg, 1, 1), 1, {}, <<>>)

-----------------------------------------------------------------------------
(* Properties of the split point, under SpecParse *)

\* the place of the first token of s
FirstToken(s) ==
    CHOOSE i \in 1..Len(s) :
        /\ FeatTokenLen(s, i) > 0
        /\ \A j \in 1..(i - 1) : FeatTokenLen(s, j) = 0

\* the text of s before its first token, and the text after that token
BeforeToken(s) == SubSeq(s, 1, FirstToken(s) - 1)
AfterToken(s) ==
    SubSeq(s, FirstToken(s) + FeatTokenLen(s, FirstToken(s)), Len(s))

\* the first line of x once its leading whitespace is skipped
FirstLineOf(x, from) == SubSeq(x, from, from + DotRun(x, from) - 1)
GuestLine(x) == FirstLineOf(x, 1 + SpaceRun(x, 1))

HasLineBreak(x) == \E k \in 1..Len(x) : x[k] = NL

-----------------------------------------------------------------------------
(* Properties of the wrappers, under SpecParse *)

\* how many of the first q characters of t are the character c
CountUpTo(t, c, q) == Cardinality({k \in 1..q : t[k] = c})

\* t starts with the opening bracket of w, and that bracket is closed by
\* the closing bracket of w at the very end of t, not before
ClosedAtEnd(t, w) ==
    /\ Len(t) >= 2
    /\ t[1] = w[1]
    /\ t[Len(t)] = w[2]
    /\ \A q \in 1..(Len(t) - 1) : CountUpTo(t, w[1], q) > CountUpTo(t, w[2], q)

\* t with its balanced outer wrappers removed, layer by layer
RECURSIVE BalancedStripped(_)
BalancedStripped(t) ==
    IF \E w \in Wrappers : ClosedAtEnd(t, w)
    THEN BalancedStripped(strip(SubSeq(t, 2, Len(t) - 1)))
    ELSE t

\* C13: _strip_wrappers removes a first and a last character only when the
\* opening bracket at the start is closed by its matching bracket at the
\* very end; a tail of separately bracketed names gives the names without
\* stray brackets.
C13_BalancedOuterOnly ==
    /\ fn = "_strip_wrappers" => out = BalancedStripped(strip(arg))
    /\ (fn = "_split_artist_feat" /\ arg = WrappedGuestsScenario)
       => out.guests = <<GuestA, GuestB>>

-----------------------------------------------------------------------------
(* Properties of the join-phrase helper, under SpecJoin *)

\* the names k.. occur in s in their order, the name k from position pos on
RECURSIVE OccurInOrder(_, _, _, _)
OccurInOrder(s, names, k, pos) ==
    \/ k > Len(names)
    \/ \E p \in pos..(Len(s) + 1) :
          /\ NameAt(s, p, names[k])
          /\ OccurInOrder(s, names, k + 1, p + Len(names[k]))

\* the names occur in s in their order, the first one at the first character
NamesInOrder(s, names) ==
    /\ names # <<>>
    /\ NameAt(s, 1, names[1])
    /\ OccurInOrder(s, names, 2, 1 + Len(names[1]))

\* C14: _standardize_join_phrases returns artists_str unchanged when
\* artists_str is empty, when artists_list is empty, when the names do not
\* occur in artists_str in their order from its first character on, and
\* when its body fails.
C14_UnchangedWithoutMatch ==
    (/\ fn = "_standardize_join_phrases"
     /\ \/ arg.artists_str = <<>>
        \/ arg.artists_list = <<>>
        \/ ~NamesInOrder(arg.artists_str, arg.artists_list)
        \/ arg.raises)
    => out = arg.artists_str

\* a credit with a join phrase, and names that do not stand in it in their
\* order, came back as it was
C14_Witness ==
    /\ fn = "_standardize_join_phrases"
    /\ ~arg.raises
    /\ arg.artists_list = << <<"B">>, <<"A">> >>
    /\ arg.artists_str = <<"A"," ","f","t"," ","B">>
    /\ out = arg.artists_str

\* " f(ea)?t(\.|uring)? " with any whitespace character in the place of each
\* blank, read at position i: the length matched, 0 when none is
VariantBetweenSpaces(s, i) ==
    IF ~(i <= Len(s) /\ IsSpace(s[i])) THEN 0
    ELSE IF \E v \in {<<"f","e","a","t",".">>, <<"f","e","a","t">>,
                      <<"f","t",".">>, <<"f","t">>, LitFeaturing,
                      <<"f","t","u","r","i","n","g">>} :
               /\ MatchLit(s, i + 1, v)
               /\ i + 1 + Len(v) <= Len(s)
               /\ IsSpace(s[i + 1 + Len(v)])
         THEN 2 + Len(CHOOSE v \in {<<"f","e","a","t",".">>, <<"f","e","a","t">>,
                                    <<"f","t",".">>, <<"f","t">>, LitFeaturing,
                                    <<"f","t","u","r","i","n","g">>} :
                         /\ MatchLit(s, i + 1, v)
                         /\ i + 1 + Len(v) <= Len(s)
                         /\ IsSpace(s[i + 1 + Len(v)]))
         ELSE 0

\* the join text with every variant between whitespace replaced by " feat. "
RECURSIVE VariantsReplaced(_, _)
VariantsReplaced(s, i) ==
    IF i > Len(s) THEN <<>>
    ELSE IF VariantBetweenSpaces(s, i) > 0
         THEN LitFeatSp \o VariantsReplaced(s, i + VariantBetweenSpaces(s, i))
         ELSE <<s[i]>> \o VariantsReplaced(s, i + 1)

\* the names, each followed by its join text with the variants replaced
RECURSIVE NamesAndJoins(_, _, _)
NamesAndJoins(names, joins, k) ==
    IF k > Len(names) THEN <<>>
    ELSE names[k] \o VariantsReplaced(joins[k], 1)
                  \o NamesAndJoins(names, joins, k + 1)

\* C15: when the names match the credit, the result is the names in order,
\* each followed by its captured join text in which every ft / ft. / feat /
\* feat. / featuring variant between two whitespace characters is replaced
\* by " feat. ".
C15_VariantsStandardized ==
    (/\ fn = "_standardize_join_phrases"
     /\ ~arg.raises
     /\ arg.artists_str # <<>>
     /\ arg.artists_list # <<>>
     /\ JoinMatch(arg.artists_str, arg.artists_list, 1, 1).ok)
    => out = NamesAndJoins(arg.artists_list,
                           JoinMatch(arg.artists_str, arg.artists_list, 1, 1).joins,
                           1)

-----------------------------------------------------------------------------
(* Properties of the processors and the configuration store, under SpecStore *)

\* C16: every call of a processor returns normally, whatever the store
\* holds, and a call that fails leaves the record as it was before the call.
C16_NeverRaises ==
    Called => /\ out = "returned"
              /\ out = "KeyError" => md = pre

\* the entries named by the text typed at the last save: its pieces between
\* line breaks, commas and semicolons, trimmed and case-folded
TypedEntries ==
    LET items == DelimSplit(strip(arg), 1, 1)
    IN  {casefold(strip(items[i])) : i \in 1..Len(items)} \ {<<>>}

\* the text typed at the last save names x
Typed(x) == x # <<>> /\ casefold(strip(x)) \in TypedEntries

\* the credit the last call was made on, or its lead, is named by the text
\* typed at the last save
TypedCreditOrLead ==
    \/ Typed(Get(pre, CreditKey))
    \/ Typed(_split_artist_feat(Get(pre, CreditKey)).lead)

\* the credit the last call was made on has guests to move
GuestsToMove ==
    /\ _split_artist_feat(Get(pre, CreditKey)).guests # <<>>
    /\ casefold(strip(Get(pre, CreditKey))) # LitVariousArtists

\* C18: once the options page has been saved, each call of a processor
\* decides with the whitelist text of the most recent save: a credit that
\* text names, or whose lead it names, is left alone, and a credit with
\* guests that it does not name is processed.
C18_WhitelistReadFresh ==
    (fn = "save" /\ Called)
    => /\ TypedCreditOrLead => md = pre
       /\ (~TypedCreditOrLead /\ GuestsToMove) => md # pre

\* a credit with guests was left alone by the call after a save that names it
C18_Witness ==
    /\ fn = "save"
    /\ Called
    /\ GuestsToMove
    /\ Typed(Get(pre, CreditKey))
    /\ md = pre

\* a credit with guests was processed by the call after a save that does
\* not name it
C18_ProcessedWitness ==
    /\ fn = "save"
    /\ Called
    /\ GuestsToMove
    /\ ~TypedCreditOrLead
    /\ arg # <<>>
    /\ md # pre

\* c stands on a line of its own in text
OwnLine(text, c) ==
    \E a \in 1..(Len(text) + 1) :
        /\ a + Len(c) - 1 <= Len(text)
        /\ SubSeq(text, a, a + Len(c) - 1) = c
        /\ a = 1 \/ text[a - 1] = NL
        /\ a + Len(c) - 1 = Len(text) \/ text[a + Len(c)] = NL

\* C19 as stated: a credit typed on a line of its own in the whitelist box
\* and saved is left untouched by both processors, whatever characters it
\* contains.
C19_Stated ==
    (/\ fn = "save"
     /\ Called
     /\ Get(pre, CreditKey) # <<>>
     /\ OwnLine(arg, Get(pre, CreditKey)))
    => md = pre

\* c holds none of the characters that separate whitelist entries
NoDelimiter(c) == \A i \in 1..Len(c) : c[i] \notin {NL, ",", ";"}

\* C19: a credit without comma, semicolon or line break typed on a line of
\* its own in the whitelist box and saved is left untouched by both
\* processors, feature tokens in it or not.
C19_ListedCreditUntouched ==
    (/\ fn = "save"
     /\ Called
     /\ Get(pre, CreditKey) # <<>>
     /\ NoDelimiter(Get(pre, CreditKey))
     /\ OwnLine(arg, Get(pre, CreditKey)))
    => md = pre

\* a credit with a feature token, typed on the second line of the box, was
\* left untouched by the call after the save
C19_Witness ==
    /\ fn = "save"
    /\ Called
    /\ arg = <<"B", NL>> \o PlainCredit
    /\ Get(pre, CreditKey) = PlainCredit
    /\ Get(pre, TitleKey) = <<"T">>
    /\ md = pre

-----------------------------------------------------------------------------
(* Properties of the frame of the processors, under Spec *)

TrackKeys == {"artist", "artistsort", "title", "FEATURED_ARTISTS"}

AlbumKeys == {"albumartist", "albumartistsort", "album"}

WrittenKeys == IF last = "track" THEN TrackKeys ELSE AlbumKeys

\* C17: the track processor writes at most artist, artistsort, title and
\* FEATURED_ARTISTS, the album processor at most albumartist,
\* albumartistsort and album; every other key of the record keeps its value
\* and no key is deleted.
C17_Frame ==
    Called => /\ DOMAIN pre \subseteq DOMAIN md
              /\ \A k \in DOMAIN md \ WrittenKeys :
                    k \in DOMAIN pre /\ md[k] = pre[k]

\* a track with credit lists and the credits of its release had its guests
\* moved and tagged
C17_Witness ==
    /\ last = "track"
    /\ {"artists", "~artists_sort", "albumartist", "album"} \subseteq DOMAIN pre
    /\ "FEATURED_ARTISTS" \in DOMAIN md
    /\ "FEATURED_ARTISTS" \notin DOMAIN pre
    /\ md["artist"] # pre["artist"]
    /\ md["title"] # pre["title"]
    /\ md["artistsort"] # pre["artistsort"]

C17_AlbumWitness ==
    /\ last = "album"
    /\ {"~albumartists", "artist", "title"} \subseteq DOMAIN pre
    /\ md["albumartist"] # pre["albumartist"]
    /\ md["album"] # pre["album"]

-----------------------------------------------------------------------------
(* Properties of the collision flag, under SpecGuard *)

\* the position of the last "." of s, 0 without one
LastDot(s) == Max({0} \cup {i \in 1..Len(s) : s[i] = "."})

\* s ends with " (n)", n being one digit or more
EndsWithNumber(s) ==
    /\ s # <<>>
    /\ s[Len(s)] = ")"
    /\ \E i \in 1..Len(s) :
          /\ i + 3 <= Len(s)
          /\ s[i] = " "
          /\ s[i + 1] = "("
          /\ \A k \in (i + 2)..(Len(s) - 1) : s[k] \in Digits

\* the basename of path is a stem, " (n)" and an extension
CollisionForm(path) ==
    /\ LastDot(Basename(path)) > 0
    /\ EndsWithNumber(SubSeq(Basename(path), 1, LastDot(Basename(path)) - 1))

\* C20: after the post-save processor has run on a file whose basename is
\* not a stem followed by " (n)" and an extension, the metadata of the file
\* does not hold '_guardrails_has_collision', whatever earlier saves set.
C20_FlagClearedWithoutCollision ==
    (last = "post_save" /\ ~CollisionForm(pre.filename))
    => "_guardrails_has_collision" \notin DOMAIN md

\* a flag set by an earlier save was cleared by a save without collision
C20_Witness ==
    /\ last = "post_save"
    /\ ~CollisionForm(pre.filename)
    /\ "_guardrails_has_collision" \in DOMAIN pre.metadata
    /\ "_guardrails_has_collision" \notin DOMAIN md

-----------------------------------------------------------------------------
(* Properties of the rollback and of the bookkeeping, under SpecTagger *)

\* the file the post-save processor ran on last, before and after the call
Before == pre.before

After == md[pre.file]

Fatal ==
    /\ "guardrails_fatal_on_collision" \in DOMAIN setting
    /\ setting["guardrails_fatal_on_collision"]

Flagged(file) == "_guardrails_has_collision" \in DOMAIN file.metadata

\* C22: when another file is at the recorded pre-save path at the moment of
\* the rollback, that file is left intact: every path that held another
\* file before the post-save processor ran holds it afterwards.
C22_RollbackKeepsOtherFiles ==
    last = "post_save"
    => \A p \in DOMAIN pre.disk :
          pre.disk[p] # pre.file => (p \in DOMAIN arg /\ arg[p] = pre.disk[p])

\* the post-save processor ran last, in fatal mode, on a file with a
\* recorded pre-save path and a collision suffix
FatalCollision ==
    /\ last = "post_save"
    /\ Fatal
    /\ Before.original # <<>>
    /\ _has_collision_suffix(Before.filename)

\* tagger.files maps path to the file the post-save processor ran on
Mapped(path) == path \in DOMAIN out /\ out[path] = pre.file

\* C21 as stated: in fatal mode, with the pre-save path recorded and a
\* collision suffix seen, after the post-save processor the state is ERROR,
\* the filename is the recorded path, tagger.files maps that path to the
\* file and has no key for the collided path, and the flag is not set and
\* no rename is run again.
C21_Stated ==
    FatalCollision
    => /\ After.state = "error"
       /\ After.filename = Before.original
       /\ Mapped(Before.original)
       /\ Before.filename \notin DOMAIN out
       /\ After.metadata = Before.metadata

\* C21: in fatal mode, with the pre-save path recorded and a collision
\* suffix seen, after the post-save processor the state is ERROR and the
\* flag is not set; when the saved path differs from the recorded one and
\* the move back succeeds, the file is at the recorded path, on the disk and
\* in tagger.files, which has no key for the collided path; otherwise the
\* file stays at the saved path.
C21_FatalRollsBack ==
    FatalCollision
    => /\ After.state = "error"
       /\ After.metadata = Before.metadata
       /\ IF Before.filename # Before.original /\ ~pre.moveFails
          THEN /\ After.filename = Before.original
               /\ After.base_filename = Basename(Before.original)
               /\ Mapped(Before.original)
               /\ Before.filename \notin DOMAIN out
               /\ arg[Before.original] = pre.disk[Before.filename]
               /\ Before.filename \notin DOMAIN arg
          ELSE /\ After.filename = Before.filename
               /\ arg = pre.disk

\* a file saved with " (1)" was moved back to its recorded path and marked
C21_Witness ==
    /\ FatalCollision
    /\ Before.suffixed
    /\ Before.filename # Before.original
    /\ After.filename = Before.original
    /\ After.state = "error"
    /\ Mapped(Before.original)

\* C23: a file the host saved without appending " (n)", its script name
\* ending in " (n)" before the extension or not, is not flagged, not set to
\* ERROR and not renamed or moved by the post-save processor.
C23_ActsOnlyOnCollisions ==
    (last = "post_save" /\ ~Before.suffixed)
    => /\ ~Flagged(After)
       /\ After.state = Before.state
       /\ After.filename = Before.filename
       /\ arg = pre.disk

\* C30: after the post-save processor has run on a file, in either mode and
\* whatever the rename run again or the move back did, tagger.files maps
\* the filename of the file to it and no other path, and base_filename is
\* the basename of the filename.
C30_BookkeepingKept ==
    last = "post_save"
    => /\ Mapped(After.filename)
       /\ After.base_filename = Basename(After.filename)
       /\ \A p \in DOMAIN out : out[p] = pre.file => p = After.filename

\* the file the post-save processor ran on held its own path before the call
IntactBefore ==
    /\ Before.filename \in DOMAIN pre.disk
    /\ pre.disk[Before.filename] = pre.file

\* the bookkeeping is kept for a file whose path no other file has taken
BookkeepingKeptWhenIntact ==
    (last = "post_save" /\ IntactBefore) => C30_BookkeepingKept

-----------------------------------------------------------------------------
(* Properties of the asciifier, under SpecAscii and SpecAuto *)

\* C24: to_ascii is idempotent: whatever the text and whatever the stored
\* maps, running to_ascii on its own result gives that result again
C24_Idempotent == pre.runs >= 2 => out = pre.text

\* with the seeded default maps a second run of to_ascii changes nothing
DefaultMapsIdempotent ==
    (pre.runs >= 2 /\ _load_maps_from_config = DefaultMaps) => out = pre.text

AutoCalled == last \in {"track", "album"}

AutoEnabled ==
    /\ "asciifier_auto_enabled" \in DOMAIN setting
    /\ setting["asciifier_auto_enabled"]

\* the tags named in asciifier_auto_tags
NamedTags ==
    IF "asciifier_auto_tags" \in DOMAIN setting
    THEN _parse_auto_tags(setting["asciifier_auto_tags"]) ELSE <<>>

\* how many times asciifier_auto_tags names the tag
Mentions(tag) == Cardinality({i \in 1..Len(NamedTags) : NamedTags[i] = tag})

\* the value with its mapped characters replaced n times over
RECURSIVE ReplacedTimes(_, _, _)
ReplacedTimes(val, table, n) ==
    IF n = 0 THEN val ELSE ReplacedTimes(CleanValue(val, table), table, n - 1)

HasMapped(val, table) == CleanValue(val, table) # val

\* C25: a call of the track or album processor changes only the tags named in
\* asciifier_auto_tags, and only when asciifier_auto_enabled is true: each
\* named tag has its mapped characters replaced (each element of a list, once
\* for each time the tag is named), every other tag keeps its value, no tag
\* is added or removed, and with the setting false or not stored the record is
\* the record before the call
C25_OnlyConfiguredTags ==
    AutoCalled =>
        /\ DOMAIN md = DOMAIN pre.before
        /\ \A k \in DOMAIN md :
              md[k] = IF AutoEnabled
                      THEN ReplacedTimes(pre.before[k], _build_effective_table,
                                         Mentions(k))
                      ELSE pre.before[k]

\* a call with the setting true that rewrote a list-valued named tag and kept
\* a tag that is not named and holds a mapped character
C25_Witness ==
    /\ AutoCalled
    /\ AutoEnabled
    /\ \E k \in DOMAIN md :
          Mentions(k) > 0 /\ md[k].list /\ md[k] # pre.before[k]
    /\ \E k \in DOMAIN md :
          /\ Mentions(k) = 0
          /\ HasMapped(md[k], _build_effective_table)
          /\ md[k] = pre.before[k]

-----------------------------------------------------------------------------
(* Properties of the processors on records with tags empty, missing or
   already written, under SpecTags *)

\* the FEATURED_ARTISTS tag of m, when it has one
Tagged(m) ==
    IF "FEATURED_ARTISTS" \in DOMAIN m THEN <<m["FEATURED_ARTISTS"]>> ELSE <<>>

\* the split of the credit the last call was made on, as it reads after the
\* join phrases have been standardized
StandardizedSplit == _split_artist_feat(StandardizedCredit)

\* the guests the last call found: none when the credit or its lead is
\* whitelisted
GuestsFound ==
    IF _is_whitelisted_credit_or_lead(Get(pre, CreditKey)) THEN <<>>
    ELSE StandardizedSplit.guests

\* no name of g equals an earlier one when case is ignored
NoRepeats(g) ==
    \A i, j \in 1..Len(g) : i < j => casefold(g[i]) # casefold(g[j])

\* C26: FEATURED_ARTISTS is written only by the track processor, and only
\* with add_featured_artists_tag on and guests found: it is then the list of
\* the guests, in order and without repeats, the one the title suffix is
\* made of. In every other call (the option off, no guests, the album
\* processor) the tag is as it was before the call: not created, not changed.
C26_TagOnlyFromTrackWithFlag ==
    Called =>
        IF last = "track" /\ setting["add_featured_artists_tag"]
                          /\ GuestsFound # <<>>
        THEN /\ Tagged(md) = <<GuestsFound>>
             /\ NoRepeats(GuestsFound)
             /\ TitleTakesSuffix
                   => Get(md, "title") = Get(pre, "title") \o <<" ">>
                                             \o SuffixText(GuestsFound)
        ELSE Tagged(md) = Tagged(pre)

\* a track call with the option on replaced an older tag by the guests that
\* went into the title suffix
C26_Witness ==
    /\ last = "track"
    /\ setting["add_featured_artists_tag"]
    /\ Tagged(pre) = << << <<"X">> >> >>
    /\ Tagged(md) = << << <<"B">> >> >>
    /\ TitleTakesSuffix
    /\ Get(md, "title") # Get(pre, "title")

\* C27: a call on a record whose credit (artist for the track processor,
\* albumartist for the album processor) is empty or absent leaves the whole
\* record as it was
C27_EmptyCreditNoOp == (Called /\ Get(pre, CreditKey) = <<>>) => md = pre

\* the album processor leaves a record without albumartist as it was
AlbumEmptyCreditNoOp ==
    (last = "album" /\ Get(pre, "albumartist") = <<>>) => md = pre

\* the last call reduced the credit to the lead of its split
ReducedToLead ==
    /\ Called
    /\ GuestsFound # <<>>
    /\ Get(md, CreditKey) = StandardizedSplit.lead
    /\ Get(md, CreditKey) # Get(pre, CreditKey)

\* C28: a lead that a processor rewrites the credit to is not an entry of the
\* whitelist
C28_LeadNotWhitelisted == ReducedToLead => ~InWhitelist(Get(md, CreditKey))

\* the title ends with a feat suffix in which name stands
SuffixNames(title, name) ==
    /\ _already_has_feat_suffix(title)
    /\ \E p \in SuffixStart(title)..Len(title) : NameAt(title, p, name)

\* C29: when a call reduces the credit to the lead, each guest taken out of
\* the credit stands in the feat suffix of the title (album) after the call
C29_GuestsNotLost ==
    ReducedToLead =>
        \A i \in 1..Len(GuestsFound) :
            SuffixNames(Get(md, TitleKey), GuestsFound[i])

\* the guests taken out of the credit stand in the suffix whenever the title
\* was not empty and had no suffix before the call
GuestsMovedWhenSuffixTaken ==
    (ReducedToLead /\ TitleTakesSuffix) =>
        \A i \in 1..Len(GuestsFound) :
            SuffixNames(Get(md, TitleKey), GuestsFound[i])

=============================================================================
